---- MODULE Spec2Model ----
(***************************************************************************)
(* RenderChunkManager of OpenTESArena: the voxel texture cache, the chasm  *)
(* floor-texture cache and its keys, the per-chunk mesh buffers, the four  *)
(* draw-call lists of every render chunk and the flattened draw-call list. *)
(* IDs are zero-based as in the C++ code; the sequences that hold them are *)
(* one-based, so entry id lives at position id + 1.                        *)
(***************************************************************************)
EXTENDS Integers, Sequences, FiniteSets, TLC

VARIABLES
    phase,                   \* "constructed", "ready" (after init) or "shutdown"
    voxelTextures,           \* std::vector<LoadedVoxelTexture>
    chasmFloorTextureLists,  \* std::vector<LoadedChasmFloorTextureList>
    chasmTextureKeys,        \* std::vector<LoadedChasmTextureKey>
    chasmWallIndexBufferIDs, \* std::array<IndexBufferID, 15>, slot i at position i + 1
    renderChunks,            \* std::vector<RenderChunk>
    drawCallsCache,          \* std::vector<RenderDrawCall>
    gpu,                     \* the renderer: next fresh id, live ids, texels, chasm wall
                             \* indices, misuse, refused calls
    world,                   \* the caller's VoxelChunk at each chunk position (0 = none)
    crashed,                 \* a DebugAssert / DebugCrash path was taken
    steps,                   \* operations run so far
    entries,                 \* TextRenderUtils::ColorOverrideInfo: std::vector<Entry>
    lastCall                 \* the last call made on the ColorOverrideInfo

vars == <<phase, voxelTextures, chasmFloorTextureLists, chasmTextureKeys,
          chasmWallIndexBufferIDs, renderChunks, drawCallsCache, gpu, world,
          crashed, steps, entries, lastCall>>

\* The fields of the RenderChunkManager, the renderer and the caller's chunks.
managerVars == <<phase, voxelTextures, chasmFloorTextureLists, chasmTextureKeys,
                 chasmWallIndexBufferIDs, renderChunks, drawCallsCache, gpu, world,
                 crashed, steps>>

\* The ColorOverrideInfo of a text box.
colorOverrideVars == <<entries, lastCall>>

\* ------------------------------------------------------------------ bounds
\* Operations per run, init included.
MaxSteps == 5
\* Steps an operation with a refused creation call counts for, beyond its own.
FaultCost == 2

\* ------------------------------------------------------------ small helpers
Max2(a, b) == IF a > b THEN a ELSE b
Min2(a, b) == IF a < b THEN a ELSE b

RECURSIVE SeqSum(_)
SeqSum(s) == IF Len(s) = 0 THEN 0 ELSE Head(s) + SeqSum(Tail(s))

\* The least of the matching positions, 0 if none matches: what std::find_if
\* returns, with 0 for end().
FindFirst(matches) ==
    IF matches = {} THEN 0 ELSE CHOOSE k \in matches : \A j \in matches : k <= j

\* s without its element at position k.
RemoveAt(s, k) == SubSeq(s, 1, k - 1) \o SubSeq(s, k + 1, Len(s))

\* ------------------------------------------------------- ArenaMeshUtils.h
VoxelTypes == {"None", "Wall", "Floor", "Ceiling", "Raised", "Diagonal",
               "TransparentWall", "Edge", "Chasm", "Door"}

\* A count that gives walls two opaque index buffers.
\* C22_WallAndDryChasm does not hold of it.
GetOpaqueIndexBufferCount_TwoForWall(voxelType) ==
    CASE voxelType \in {"Wall", "Raised"} -> 2
      [] voxelType \in {"Floor", "Ceiling", "Diagonal", "Chasm"} -> 1
      [] OTHER -> 0

GetOpaqueIndexBufferCount(voxelType) ==
    CASE voxelType = "Wall" -> 3
      [] voxelType = "Raised" -> 2
      [] voxelType \in {"Floor", "Ceiling", "Diagonal", "Chasm"} -> 1
      [] OTHER -> 0

\* An alpha-tested count that leaves edges without index buffer.
\* C24_ShapeTable does not hold of it.
GetAlphaTestedIndexBufferCount_NoEdge(voxelType) ==
    IF voxelType \in {"Raised", "TransparentWall", "Door"} THEN 1 ELSE 0

GetAlphaTestedIndexBufferCount(voxelType) ==
    IF voxelType \in {"Raised", "TransparentWall", "Edge", "Door"} THEN 1 ELSE 0

\* -1 stands for the DebugUnhandledReturnMsg branch.
GetRendererVertexCount(voxelType) ==
    CASE voxelType = "None" -> 0
      [] voxelType \in {"Wall", "Raised"} -> 24
      [] voxelType \in {"TransparentWall", "Door"} -> 16
      [] voxelType = "Chasm" -> 20
      [] voxelType \in {"Floor", "Ceiling", "Diagonal", "Edge"} -> 4
      [] OTHER -> -1

\* MeshUtils::INDICES_PER_TRIANGLE.
IndicesPerTriangle == 3

\* -1 stands for the DebugUnhandledReturnMsg branches.
GetOpaqueIndexCount(voxelType, bufferIndex) ==
    LET triangleCount ==
            CASE voxelType = "Wall" /\ bufferIndex = 0 -> 8
              [] voxelType = "Wall" /\ bufferIndex \in {1, 2} -> 2
              [] voxelType = "Raised" /\ bufferIndex \in {0, 1} -> 4
              [] voxelType \in {"Chasm", "Floor", "Ceiling", "Diagonal"} /\ bufferIndex = 0 -> 2
              [] OTHER -> -1
    IN  IF triangleCount < 0 THEN -1 ELSE triangleCount * IndicesPerTriangle

\* -1 stands for the DebugUnhandledReturnMsg branches.
GetAlphaTestedIndexCount(voxelType, bufferIndex) ==
    LET triangleCount ==
            CASE voxelType = "Raised" /\ bufferIndex = 0 -> 12
              [] voxelType \in {"TransparentWall", "Door"} /\ bufferIndex = 0 -> 8
              [] voxelType = "Edge" /\ bufferIndex = 0 -> 2
              [] OTHER -> -1
    IN  IF triangleCount < 0 THEN -1 ELSE triangleCount * IndicesPerTriangle

AllowsBackFacingGeometry(voxelType) == voxelType \in {"Diagonal", "Edge", "Chasm"}

HasContextSensitiveGeometry(voxelType) == voxelType = "Chasm"

\* ------------------------------------------------- the caller's voxel chunks
\* A VoxelMeshDefinition as loadVoxelMeshBuffers reads it: the air shape is empty,
\* the others have the index-list counts of their voxel type.
MeshDef(voxelType) ==
    [isEmpty |-> voxelType = "None",
     opaqueIndicesListCount |-> GetOpaqueIndexBufferCount(voxelType),
     alphaTestedIndicesListCount |-> GetAlphaTestedIndexBufferCount(voxelType)]

SolidColorChasm(paletteIndex, wall) ==
    [animType |-> "SolidColor", paletteIndex |-> paletteIndex,
     textureAssets |-> <<>>, wallTextureAsset |-> wall]

AnimatedChasm(assets, wall) ==
    [animType |-> "Animated", paletteIndex |-> 0,
     textureAssets |-> assets, wallTextureAsset |-> wall]

\* One voxel as the chunk's per-voxel getters describe it. -1 stands for
\* "tryGet... returned false"; doorVisibleFaces is the visibility instance's
\* face list (indices into DoorUtils::Facings).
PlainVoxel(meshDefID, textureDefID, voxelType) ==
    [meshDefID |-> meshDefID, textureDefID |-> textureDefID, type |-> voxelType,
     chasmType |-> "None", chasmDefID |-> -1, chasmWallFaces |-> 0,
     doorDefID |-> -1, doorAnimPercent |-> -1, hasDoorVisInst |-> FALSE,
     doorVisibleFaces |-> <<>>, fadePercent |-> -1]

FadingVoxel(meshDefID, textureDefID, voxelType, percentFaded) ==
    [PlainVoxel(meshDefID, textureDefID, voxelType) EXCEPT !.fadePercent = percentFaded]

ChasmVoxel(meshDefID, textureDefID, chasmDefID, chasmType, wallFaces) ==
    [PlainVoxel(meshDefID, textureDefID, "Chasm") EXCEPT
        !.chasmType = chasmType, !.chasmDefID = chasmDefID, !.chasmWallFaces = wallFaces]

DoorVoxel(meshDefID, textureDefID, doorDefID, percentOpen, hasVis, faces) ==
    [PlainVoxel(meshDefID, textureDefID, "Door") EXCEPT
        !.doorDefID = doorDefID, !.doorAnimPercent = percentOpen,
        !.hasDoorVisInst = hasVis, !.doorVisibleFaces = faces]

\* Texture assets for which TextureManager::tryGetTextureBuilderID finds nothing.
MissingAssets == {"M"}

Pos0 == <<0, 0>>
Pos1 == <<1, 0>>
Positions == {Pos0, Pos1}

\* A wall, a dry chasm with a north wall face, a half-open swinging door and a
\* fading edge.
ChunkA ==
    [position |-> Pos0,
     textureDefs |-> << <<"A", "B", "C">>, <<"S", "W">>, <<"D">>, <<"E">> >>,
     chasmDefs |-> << SolidColorChasm(5, "W") >>,
     doorDefs |-> << "Swinging" >>,
     meshDefs |-> << MeshDef("None"), MeshDef("Wall"), MeshDef("Chasm"),
                     MeshDef("Door"), MeshDef("Edge") >>,
     voxels |-> << PlainVoxel(1, 0, "Wall"),
                   ChasmVoxel(2, 1, 0, "Dry", 1),
                   DoorVoxel(3, 2, 0, 50, TRUE, <<0>>),
                   FadingVoxel(4, 3, "Edge", 30) >>]

\* An animated (wet) chasm with two wall faces, a dry chasm of the same colour
\* as ChunkA's without wall faces, a raised platform and a fading wall.
ChunkB ==
    [position |-> Pos1,
     textureDefs |-> << <<"A", "B", "C">>, <<"S", "W">> >>,
     chasmDefs |-> << AnimatedChasm(<<"F1", "F2">>, "W"), SolidColorChasm(5, "W") >>,
     doorDefs |-> << >>,
     meshDefs |-> << MeshDef("None"), MeshDef("Chasm"), MeshDef("Raised"),
                     MeshDef("Wall") >>,
     voxels |-> << ChasmVoxel(1, 1, 0, "Wet", 3),
                   ChasmVoxel(1, 1, 1, "Dry", 0),
                   PlainVoxel(2, 0, "Raised"),
                   FadingVoxel(3, 0, "Wall", 40) >>]

\* At ChunkA's position with another chasm definition under ID 0: an animated
\* chasm one frame of which is missing; a wall whose bottom texture is missing,
\* a closed sliding door and a raising door without visibility instance.
ChunkC ==
    [position |-> Pos0,
     textureDefs |-> << <<"A", "M", "C">>, <<"S", "W">>, <<"D">> >>,
     chasmDefs |-> << AnimatedChasm(<<"F1", "M">>, "W") >>,
     doorDefs |-> << "Sliding", "Raising" >>,
     meshDefs |-> << MeshDef("None"), MeshDef("Wall"), MeshDef("Chasm"),
                     MeshDef("Door") >>,
     voxels |-> << PlainVoxel(1, 0, "Wall"),
                   ChasmVoxel(2, 1, 0, "Wet", 4),
                   DoorVoxel(3, 2, 0, -1, TRUE, <<1, 2>>),
                   DoorVoxel(3, 2, 1, 20, FALSE, <<>>) >>]

\* The same animated chasm as ChunkC's (one frame missing) and an animated
\* chasm made of the loadable frame alone.
ChunkD ==
    [position |-> Pos1,
     textureDefs |-> << <<"S", "W">>, <<"A">> >>,
     chasmDefs |-> << AnimatedChasm(<<"F1", "M">>, "W"), AnimatedChasm(<<"F1">>, "W") >>,
     doorDefs |-> << >>,
     meshDefs |-> << MeshDef("None"), MeshDef("Chasm"), MeshDef("Floor") >>,
     voxels |-> << ChasmVoxel(1, 0, 0, "Wet", 0),
                   ChasmVoxel(1, 0, 1, "Wet", 8),
                   PlainVoxel(2, 1, "Floor") >>]

\* One wall and one dry chasm without wall faces.
ChunkE ==
    [position |-> Pos1,
     textureDefs |-> << <<"A", "B", "C">>, <<"S", "W">> >>,
     chasmDefs |-> << SolidColorChasm(7, "W") >>,
     doorDefs |-> << >>,
     meshDefs |-> << MeshDef("None"), MeshDef("Wall"), MeshDef("Chasm") >>,
     voxels |-> << PlainVoxel(1, 0, "Wall"),
                   ChasmVoxel(2, 1, 0, "Dry", 0) >>]

\* A fully open raising door with two visible faces, a fully open sliding door,
\* a raising door without visibility instance and, after it, a wall.
ChunkF ==
    [position |-> Pos0,
     textureDefs |-> << <<"D">>, <<"A", "B", "C">> >>,
     chasmDefs |-> << >>,
     doorDefs |-> << "Raising", "Sliding" >>,
     meshDefs |-> << MeshDef("None"), MeshDef("Door"), MeshDef("Wall") >>,
     voxels |-> << DoorVoxel(1, 0, 0, 100, TRUE, <<0, 3>>),
                   DoorVoxel(1, 0, 1, 100, TRUE, <<2>>),
                   DoorVoxel(1, 0, 0, 30, FALSE, <<>>),
                   PlainVoxel(2, 1, "Wall") >>]

\* A splitting door and, after it, a wall.
ChunkG ==
    [position |-> Pos1,
     textureDefs |-> << <<"D">>, <<"A", "B", "C">> >>,
     chasmDefs |-> << >>,
     doorDefs |-> << "Splitting" >>,
     meshDefs |-> << MeshDef("None"), MeshDef("Door"), MeshDef("Wall") >>,
     voxels |-> << DoorVoxel(1, 0, 0, 50, TRUE, <<1>>),
                   PlainVoxel(2, 1, "Wall") >>]

Chunks == <<ChunkA, ChunkB, ChunkC, ChunkD, ChunkE, ChunkF, ChunkG>>
ChunkIds == 1..Len(Chunks)

\* chasmAnimPercent values the caller passes, in hundredths.
AnimPercents == {60}

\* ------------------------------------------------------------ the renderer
\* tryCreate*: the failAt-th creation call of the running operation fails and
\* yields no handle; every other call yields a fresh handle. m is the working
\* state of the operation (the manager's fields, gpu and the call counter).
TryCreate(m, failAt) ==
    LET n == m.calls + 1
        id == m.gpu.next
    IN  IF n = failAt
        THEN [ok |-> FALSE, id |-> -1, m |-> [m EXCEPT !.calls = n]]
        ELSE [ok |-> TRUE, id |-> id,
              m |-> [m EXCEPT !.calls = n,
                              !.gpu.next = id + 1,
                              !.gpu.live = @ \cup {id}]]

\* free*Buffer / freeObjectTexture of one handle. Freeing a handle that is not
\* live (already freed, or the invalid handle -1) is recorded as misuse.
FreeHandle(g, id) ==
    IF id \in g.live
    THEN [g EXCEPT !.live = @ \ {id}]
    ELSE [g EXCEPT !.misuse = @ \cup {id}]

\* The handles of ids freed one after the other, as FreeHandle does for each.
FreeHandles(g, ids) ==
    LET bad == {k \in 1..Len(ids) :
                   ids[k] \notin g.live \/ \E j \in 1..(k - 1) : ids[j] = ids[k]}
    IN  [g EXCEPT !.live = @ \ {ids[k] : k \in 1..Len(ids)},
                  !.misuse = @ \cup {ids[k] : k \in bad}]

\* ---------------------------------------------------------- texture cache
\* The find_if over voxelTextures by texture asset: one-based position, 0 = end().
FindVoxelTexture(textures, textureAsset) ==
    FindFirst({k \in 1..Len(textures) : textures[k].textureAsset = textureAsset})

\* A loader without the cache lookup: it creates a texture per reference.
\* C1_OneEntryPerAsset does not hold of it.
RECURSIVE LoadVoxelDefTexturesFrom_NoLookup(_, _, _, _)
LoadVoxelDefTexturesFrom_NoLookup(i, assets, m, failAt) ==
    IF i > Len(assets) THEN m
    ELSE IF assets[i] \in MissingAssets
         THEN LoadVoxelDefTexturesFrom_NoLookup(i + 1, assets, m, failAt)
    ELSE LET r == TryCreate(m, failAt)
         IN  IF ~r.ok
             THEN LoadVoxelDefTexturesFrom_NoLookup(i + 1, assets, r.m, failAt)
             ELSE LoadVoxelDefTexturesFrom_NoLookup(i + 1, assets,
                      [r.m EXCEPT !.voxelTextures =
                          Append(@, [textureAsset |-> assets[i], id |-> r.id])],
                      failAt)

\* A loader that gives up the rest of the definition's list at the first
\* texture that cannot be loaded. C17_FailureSkipsOneEntry does not hold of it.
RECURSIVE LoadVoxelDefTexturesFrom_AbortOnFailure(_, _, _, _)
LoadVoxelDefTexturesFrom_AbortOnFailure(i, assets, m, failAt) ==
    IF i > Len(assets) THEN m
    ELSE IF FindVoxelTexture(m.voxelTextures, assets[i]) # 0
         THEN LoadVoxelDefTexturesFrom_AbortOnFailure(i + 1, assets, m, failAt)
    ELSE IF assets[i] \in MissingAssets THEN m
    ELSE LET r == TryCreate(m, failAt)
         IN  IF ~r.ok THEN r.m
             ELSE LoadVoxelDefTexturesFrom_AbortOnFailure(i + 1, assets,
                      [r.m EXCEPT !.voxelTextures =
                          Append(@, [textureAsset |-> assets[i], id |-> r.id])],
                      failAt)

RECURSIVE LoadVoxelDefTexturesFrom(_, _, _, _)
LoadVoxelDefTexturesFrom(i, assets, m, failAt) ==
    IF i > Len(assets) THEN m
    ELSE IF FindVoxelTexture(m.voxelTextures, assets[i]) # 0
         THEN LoadVoxelDefTexturesFrom(i + 1, assets, m, failAt)
    ELSE IF assets[i] \in MissingAssets
         THEN LoadVoxelDefTexturesFrom(i + 1, assets, m, failAt)
    ELSE LET r == TryCreate(m, failAt)
         IN  IF ~r.ok
             THEN LoadVoxelDefTexturesFrom(i + 1, assets, r.m, failAt)
             ELSE LoadVoxelDefTexturesFrom(i + 1, assets,
                      [r.m EXCEPT !.voxelTextures =
                          Append(@, [textureAsset |-> assets[i], id |-> r.id])],
                      failAt)

\* Loads a voxel texture definition's textures that are not in the cache yet.
LoadVoxelDefTextures(voxelTextureDef, m, failAt) ==
    LoadVoxelDefTexturesFrom(1, voxelTextureDef, m, failAt)

\* ------------------------------------------------------ chasm texture cache
LoadedChasmFloorComparer(textureList, chasmDef) ==
    IF textureList.animType # chasmDef.animType THEN FALSE
    ELSE IF textureList.animType = "SolidColor"
         THEN textureList.paletteIndex = chasmDef.paletteIndex
    ELSE /\ Len(textureList.textureAssets) = Len(chasmDef.textureAssets)
         /\ \A i \in 1..Len(textureList.textureAssets) :
                textureList.textureAssets[i] = chasmDef.textureAssets[i]

\* A key lookup that never finds a key. C18_ChasmKeyedOnce does not hold of it.
FindChasmTextureKey_NeverFound(keys, chunkPos, chasmDefID) == 0

\* The find_if over chasmTextureKeys by (chasmDefID, chunkPos): position, 0 = end().
FindChasmTextureKey(keys, chunkPos, chasmDefID) ==
    FindFirst({k \in 1..Len(keys) :
                   keys[k].chasmDefID = chasmDefID /\ keys[k].chunkPos = chunkPos})

\* The frames loop of the Animated branch: acc holds the assets and textures
\* of the frames loaded so far; a frame that fails is left out.
RECURSIVE LoadChasmFrames(_, _, _, _, _)
LoadChasmFrames(i, assets, acc, m, failAt) ==
    IF i > Len(assets) THEN [acc |-> acc, m |-> m]
    ELSE IF assets[i] \in MissingAssets
         THEN LoadChasmFrames(i + 1, assets, acc, m, failAt)
    ELSE LET r == TryCreate(m, failAt)
         IN  IF ~r.ok
             THEN LoadChasmFrames(i + 1, assets, acc, r.m, failAt)
             ELSE LoadChasmFrames(i + 1, assets,
                      [textureAssets |-> Append(acc.textureAssets, assets[i]),
                       objectTextureRefs |-> Append(acc.objectTextureRefs, r.id)],
                      r.m, failAt)

\* The tail of LoadChasmDefTextures: the wall texture lookup, its assertion and
\* the new key.
AppendChasmTextureKey(chunkPos, chasmDefID, chasmDef, chasmFloorListIndex, m) ==
    LET wallPos == FindVoxelTexture(m.voxelTextures, chasmDef.wallTextureAsset)
    IN  IF wallPos = 0
        THEN [m EXCEPT !.crashed = TRUE]
        ELSE [m EXCEPT !.chasmTextureKeys =
                 Append(@, [chunkPos |-> chunkPos, chasmDefID |-> chasmDefID,
                            chasmFloorListIndex |-> chasmFloorListIndex,
                            chasmWallIndex |-> wallPos - 1])]

LoadChasmDefTextures(chasmDefID, chunk, m, failAt) ==
    LET chunkPos == chunk.position
        chasmDef == chunk.chasmDefs[chasmDefID + 1]
        floorPos == FindFirst({k \in 1..Len(m.chasmFloorTextureLists) :
                        LoadedChasmFloorComparer(m.chasmFloorTextureLists[k], chasmDef)})
    IN  IF FindChasmTextureKey(m.chasmTextureKeys, chunkPos, chasmDefID) # 0 THEN m
        ELSE IF floorPos # 0
             THEN AppendChasmTextureKey(chunkPos, chasmDefID, chasmDef, floorPos - 1, m)
        ELSE IF chasmDef.animType = "SolidColor"
             THEN LET r == TryCreate(m, failAt)
                      \* lockObjectTexture is the next fallible renderer call
                      lockCall == r.m.calls + 1
                  IN  IF ~r.ok THEN r.m
                      ELSE IF lockCall = failAt
                           \* the scoped reference releases the texture on return
                           THEN [r.m EXCEPT !.calls = lockCall,
                                            !.gpu = FreeHandle(@, r.id)]
                      ELSE LET m2 == [r.m EXCEPT
                                   !.calls = lockCall,
                                   !.gpu.texels = @ \cup {<<r.id, chasmDef.paletteIndex>>},
                                   !.chasmFloorTextureLists = Append(@,
                                       [animType |-> "SolidColor",
                                        paletteIndex |-> chasmDef.paletteIndex,
                                        textureAssets |-> <<>>,
                                        objectTextureRefs |-> <<r.id>>])]
                           IN  AppendChasmTextureKey(chunkPos, chasmDefID, chasmDef,
                                   Len(m2.chasmFloorTextureLists) - 1, m2)
        ELSE LET f == LoadChasmFrames(1, chasmDef.textureAssets,
                          [textureAssets |-> <<>>, objectTextureRefs |-> <<>>], m, failAt)
                 m2 == [f.m EXCEPT !.chasmFloorTextureLists = Append(@,
                            [animType |-> "Animated", paletteIndex |-> 0,
                             textureAssets |-> f.acc.textureAssets,
                             objectTextureRefs |-> f.acc.objectTextureRefs])]
             IN  AppendChasmTextureKey(chunkPos, chasmDefID, chasmDef,
                     Len(m2.chasmFloorTextureLists) - 1, m2)

RECURSIVE LoadTextureDefsFrom(_, _, _, _)
LoadTextureDefsFrom(i, chunk, m, failAt) ==
    IF i > Len(chunk.textureDefs) THEN m
    ELSE LoadTextureDefsFrom(i + 1, chunk,
             LoadVoxelDefTextures(chunk.textureDefs[i], m, failAt), failAt)

RECURSIVE LoadChasmDefsFrom(_, _, _, _)
LoadChasmDefsFrom(i, chunk, m, failAt) ==
    IF i >= Len(chunk.chasmDefs) \/ m.crashed THEN m
    ELSE LoadChasmDefsFrom(i + 1, chunk, LoadChasmDefTextures(i, chunk, m, failAt), failAt)

loadVoxelTextures(chunk, m, failAt) ==
    LoadChasmDefsFrom(0, chunk, LoadTextureDefsFrom(1, chunk, m, failAt), failAt)

\* ------------------------------------------------------------ mesh buffers
\* A default-constructed RenderVoxelMeshDefinition: no buffer.
EmptyRenderVoxelMeshDef ==
    [vertexBufferID |-> -1, normalBufferID |-> -1, texCoordBufferID |-> -1,
     opaqueIndexBufferIDs |-> <<-1, -1, -1>>, opaqueIndexBufferIdCount |-> 0,
     alphaTestedIndexBufferID |-> -1]

\* The buffer handles a RenderVoxelMeshDefinition holds, in release order.
MeshDefHandles(d) ==
    SelectSeq(<<d.vertexBufferID, d.normalBufferID, d.texCoordBufferID,
                d.opaqueIndexBufferIDs[1], d.opaqueIndexBufferIDs[2],
                d.opaqueIndexBufferIDs[3], d.alphaTestedIndexBufferID>>,
              LAMBDA id : id >= 0)

\* RenderVoxelMeshDefinition::freeBuffers: releases every handle it holds and
\* goes back to the empty definition.
MeshDefFreeBuffers(d, g) == [def |-> EmptyRenderVoxelMeshDef, gpu |-> FreeHandles(g, MeshDefHandles(d))]

\* The opaque index buffer loop of one shape. A failed creation frees the
\* shape's buffers and goes on with the next bufferIndex of the same loop.
RECURSIVE LoadOpaqueIndexBuffers(_, _, _, _, _)
LoadOpaqueIndexBuffers(bufferIndex, count, d, m, failAt) ==
    IF bufferIndex >= count THEN [def |-> d, m |-> m]
    ELSE LET r == TryCreate(m, failAt)
         IN  IF ~r.ok
             THEN LET f == MeshDefFreeBuffers(d, r.m.gpu)
                  IN  LoadOpaqueIndexBuffers(bufferIndex + 1, count, f.def,
                          [r.m EXCEPT !.gpu = f.gpu], failAt)
             ELSE LoadOpaqueIndexBuffers(bufferIndex + 1, count,
                      [d EXCEPT !.opaqueIndexBufferIDs[bufferIndex + 1] = r.id,
                                !.opaqueIndexBufferIdCount = @ + 1],
                      r.m, failAt)

\* The buffers of one non-empty shape. added = FALSE stands for the "continue"
\* of the shape loop: the definition is neither added to the render chunk nor
\* mapped.
LoadMeshDefBuffers(voxelMeshDef, m, failAt) ==
    LET v == TryCreate(m, failAt)
        dv == [EmptyRenderVoxelMeshDef EXCEPT !.vertexBufferID = v.id]
        n == TryCreate(v.m, failAt)
        dn == [dv EXCEPT !.normalBufferID = n.id]
        t == TryCreate(n.m, failAt)
        dt == [dn EXCEPT !.texCoordBufferID = t.id]
        o == LoadOpaqueIndexBuffers(0, voxelMeshDef.opaqueIndicesListCount, dt, t.m, failAt)
        a == TryCreate(o.m, failAt)
        Skip(d, mm) == [added |-> FALSE, def |-> MeshDefFreeBuffers(d, mm.gpu).def,
                        m |-> [mm EXCEPT !.gpu = MeshDefFreeBuffers(d, mm.gpu).gpu]]
    IN  IF ~v.ok THEN [added |-> FALSE, def |-> EmptyRenderVoxelMeshDef, m |-> v.m]
        ELSE IF ~n.ok THEN Skip(dv, n.m)
        ELSE IF ~t.ok THEN Skip(dn, t.m)
        ELSE IF voxelMeshDef.alphaTestedIndicesListCount = 0
             THEN [added |-> TRUE, def |-> o.def, m |-> o.m]
        ELSE IF ~a.ok THEN Skip(o.def, a.m)
        ELSE [added |-> TRUE, def |-> [o.def EXCEPT !.alphaTestedIndexBufferID = a.id],
              m |-> a.m]

\* rc is the render chunk being filled, m the working state.
RECURSIVE LoadMeshDefsFrom(_, _, _, _, _)
LoadMeshDefsFrom(meshDefIndex, chunk, rc, m, failAt) ==
    IF meshDefIndex >= Len(chunk.meshDefs) THEN [rc |-> rc, m |-> m]
    ELSE LET voxelMeshDef == chunk.meshDefs[meshDefIndex + 1]
             r == IF voxelMeshDef.isEmpty
                  THEN [added |-> TRUE, def |-> EmptyRenderVoxelMeshDef, m |-> m]
                  ELSE LoadMeshDefBuffers(voxelMeshDef, m, failAt)
         IN  IF ~r.added
             THEN LoadMeshDefsFrom(meshDefIndex + 1, chunk, rc, r.m, failAt)
             ELSE LoadMeshDefsFrom(meshDefIndex + 1, chunk,
                      [rc EXCEPT !.meshDefs = Append(@, r.def),
                                 !.meshDefMappings = @ @@ (meshDefIndex :> Len(rc.meshDefs))],
                      r.m, failAt)

loadVoxelMeshBuffers(rc, chunk, m, failAt) ==
    LoadMeshDefsFrom(0, chunk, rc, m, failAt)

\* ArenaMeshUtils::GetChasmWallIndex, on the face bits of a chasm wall instance
\* (init builds slot i for the combination i + 1).
GetChasmWallIndex(faces) == faces - 1

\* A chasm wall mapping for the face combinations east and north-east only.
\* C31_ChasmWallDrawCall does not hold of it.
loadVoxelChasmWalls_EastOnly(rc, chunk, table) ==
    [rc EXCEPT !.chasmWallIndexBufferIDs =
        [k \in {j \in 1..Len(chunk.voxels) : chunk.voxels[j].chasmWallFaces \in {2, 3}} |->
            table[GetChasmWallIndex(chunk.voxels[k].chasmWallFaces) + 1]]]

\* Maps every voxel that has a chasm wall instance to the shared index buffer
\* of its face combination. Voxels are keyed by their place in iteration order.
loadVoxelChasmWalls(rc, chunk, table) ==
    [rc EXCEPT !.chasmWallIndexBufferIDs =
        [k \in {j \in 1..Len(chunk.voxels) : chunk.voxels[j].chasmWallFaces > 0} |->
            table[GetChasmWallIndex(chunk.voxels[k].chasmWallFaces) + 1]]]

\* RenderChunk::init: an empty render chunk at chunkPos. srcChunk is the
\* catalogue number of the VoxelChunk it is loaded from (bookkeeping only).
NewRenderChunk(chunkPos, srcChunk) ==
    [position |-> chunkPos, srcChunk |-> srcChunk, created |-> {},
     meshDefs |-> <<>>, meshDefMappings |-> <<>>,
     chasmWallIndexBufferIDs |-> <<>>,
     staticDrawCalls |-> <<>>, doorDrawCalls |-> <<>>,
     chasmDrawCalls |-> <<>>, fadingDrawCalls |-> <<>>]

\* The handles of the mesh definitions from the i-th on, in release order.
RECURSIVE MeshDefsHandlesFrom(_, _)
MeshDefsHandlesFrom(i, defs) ==
    IF i > Len(defs) THEN <<>>
    ELSE MeshDefHandles(defs[i]) \o MeshDefsHandlesFrom(i + 1, defs)

\* RenderChunk::freeBuffers: releases the buffers of every mesh definition.
RenderChunkFreeBuffers(rc, g) == FreeHandles(g, MeshDefsHandlesFrom(1, rc.meshDefs))

\* --------------------------------------------------------------- draw calls
\* Door faces without the last facing.
\* C27_DoorDrawCallPerVisibleFace does not hold of it.
DoorFaces_Three == <<0, 1, 2>>

\* Indices into DoorUtils::Facings.
DoorFaces == <<0, 1, 2, 3>>

\* A selector that numbers the index groups of a raised voxel from its first
\* texture asset. C38_SelectorsDefined does not hold of it.
GetVoxelOpaqueTextureAssetIndex_RaisedFromZero(voxelType, indexBufferIndex) ==
    CASE voxelType \in {"Wall", "Floor", "Ceiling", "Diagonal", "Raised"} -> indexBufferIndex
      [] voxelType = "Chasm" -> IF indexBufferIndex = 0 THEN 0 ELSE -1
      [] OTHER -> -1

\* -1 stands for the DebugUnhandledReturnMsg branch.
GetVoxelOpaqueTextureAssetIndex(voxelType, indexBufferIndex) ==
    CASE voxelType \in {"Wall", "Floor", "Ceiling", "Diagonal"} -> indexBufferIndex
      [] voxelType = "Raised" ->
            IF indexBufferIndex = 0 THEN 1 ELSE IF indexBufferIndex = 1 THEN 2 ELSE -1
      [] voxelType = "Chasm" -> IF indexBufferIndex = 0 THEN 0 ELSE -1
      [] OTHER -> -1

GetVoxelAlphaTestedTextureAssetIndex(voxelType) ==
    CASE voxelType \in {"Raised", "TransparentWall", "Edge", "Door"} -> 0
      [] voxelType = "Chasm" -> 1
      [] OTHER -> -1

\* static_cast<int> of a product given in hundredths: truncation toward zero.
TruncHundredths(x) == IF x >= 0 THEN x \div 100 ELSE -((-x) \div 100)

\* A getTextureIndex that counts the frames from the last one.
\* C21_FrameMonotonic does not hold of it.
getTextureIndex_FromLast(textureList, chasmAnimPercent) ==
    LET textureCount == Len(textureList.objectTextureRefs)
    IN  IF textureCount < 1 THEN -1
        ELSE IF textureList.animType = "SolidColor" THEN 0
        ELSE textureCount - 1
                 - Max2(0, Min2(TruncHundredths(textureCount * chasmAnimPercent),
                                textureCount - 1))

\* LoadedChasmFloorTextureList::getTextureIndex; -1 stands for a failed assertion.
getTextureIndex(textureList, chasmAnimPercent) ==
    LET textureCount == Len(textureList.objectTextureRefs)
    IN  IF textureCount < 1 THEN -1
        ELSE IF textureList.animType = "SolidColor" THEN 0
        ELSE Max2(0, Min2(TruncHundredths(textureCount * chasmAnimPercent),
                          textureCount - 1))

\* getTextureIndex for a chasmAnimPercent so large that textureCount *
\* chasmAnimPercent is outside the range of int: the static_cast<int> of such a
\* double is undefined, and whichever int the build yields, std::clamp brings
\* it into 0..textureCount - 1. The set of possible results.
getTextureIndexOutOfRange(textureList) ==
    LET textureCount == Len(textureList.objectTextureRefs)
    IN  IF textureCount < 1 THEN {-1}
        ELSE IF textureList.animType = "SolidColor" THEN {0}
        ELSE 0..(textureCount - 1)

\* The texture handle, or -1 where one of the function's assertions fails.
getChasmFloorTextureID(c, chunkPos, chasmDefID, chasmAnimPercent) ==
    LET keyPos == FindChasmTextureKey(c.chasmTextureKeys, chunkPos, chasmDefID)
        floorListIndex == c.chasmTextureKeys[keyPos].chasmFloorListIndex
        textureList == c.chasmFloorTextureLists[floorListIndex + 1]
        index == getTextureIndex(textureList, chasmAnimPercent)
    IN  IF keyPos = 0 THEN -1
        ELSE IF floorListIndex < 0 \/ floorListIndex >= Len(c.chasmFloorTextureLists)
             THEN -1
        ELSE IF index < 0 THEN -1
        ELSE textureList.objectTextureRefs[index + 1]

\* The texture handle, or -1 where the key assertion fails or the wall index
\* is outside the texture cache.
getChasmWallTextureID(c, chunkPos, chasmDefID) ==
    LET keyPos == FindChasmTextureKey(c.chasmTextureKeys, chunkPos, chasmDefID)
        wallIndex == c.chasmTextureKeys[keyPos].chasmWallIndex
    IN  IF keyPos = 0 THEN -1
        ELSE IF wallIndex < 0 \/ wallIndex >= Len(c.voxelTextures) THEN -1
        ELSE c.voxelTextures[wallIndex + 1].id

\* A lookup that falls back on the first cached texture.
\* C30_MissingTextureOmitsOneCall does not hold of it.
VoxelTextureID_FirstCached(c, textureAsset) ==
    LET pos == FindVoxelTexture(c.voxelTextures, textureAsset)
    IN  IF Len(c.voxelTextures) = 0 THEN -1
        ELSE IF pos = 0 THEN c.voxelTextures[1].id
        ELSE c.voxelTextures[pos].id

\* The handle of the cached texture of an asset, -1 if it is not cached.
VoxelTextureID(c, textureAsset) ==
    LET pos == FindVoxelTexture(c.voxelTextures, textureAsset)
    IN  IF pos = 0 THEN -1 ELSE c.voxelTextures[pos].id

\* Angles are in microradians. Constants::HalfPi and Constants::Epsilon.
HalfPi == 1570796
Epsilon == 10

\* A door that swings the full quarter turn.
\* C25_SwingingRotation does not hold of it.
SwingingRotationAmount_QuarterTurn(doorAnimPercent) == -(HalfPi * doorAnimPercent)

\* rotationAmount of a swinging door in hundredths of a microradian,
\* doorAnimPercent being in hundredths.
SwingingRotationAmount(doorAnimPercent) == -((HalfPi - Epsilon) * doorAnimPercent)

\* ArenaRenderUtils::DOOR_MIN_VISIBLE in hundredths.
DOOR_MIN_VISIBLE == 10

\* The factor 1.0 of a scale matrix, in ten-thousandths.
One == 10000

\* A door whose visible part shrinks to nothing.
\* C26_SlidingRaisingScale does not hold of it.
DoorTexCoordMin_ToZero(doorAnimPercent) == 100 * doorAnimPercent

\* uMin / vMin of a sliding / raising door in ten-thousandths.
DoorTexCoordMin(doorAnimPercent) == (100 - DOOR_MIN_VISIBLE) * doorAnimPercent

\* scaleAmount of a sliding / raising door in ten-thousandths.
DoorScaleAmount(doorAnimPercent) == One - DoorTexCoordMin(doorAnimPercent)

\* Matrix4d::identity() as a rotation; Matrix4d::yRotation(BaseAngles[face] +
\* amount) is [axis |-> "y", baseFace |-> face, amount |-> amount].
Identity == [axis |-> "none", baseFace |-> -1, amount |-> 0]
NoScale == <<One, One, One>>
\* A pixel shader parameter is tagged with what it measures: <<"zero", 0>>,
\* <<"fade", percentFaded>> in hundredths, <<"min", uMin or vMin>> in
\* ten-thousandths.
ZeroParam == <<"zero", 0>>

\* addVoxelDrawCall's record. position is the voxel (chunk position and place
\* in iteration order) plus the door face whose hinge offset is added (-1: none).
RenderDrawCall(chunkPos, k, hinge, preScaleTranslation, rotation, scale, renderMeshDef, indexBufferID, textureID0, textureID1, sampling, vertexShader, pixelShader, param0) ==
    [position |-> <<chunkPos, k, hinge>>,
     preScaleTranslation |-> preScaleTranslation,
     rotation |-> rotation, scale |-> scale,
     vertexBufferID |-> renderMeshDef.vertexBufferID,
     normalBufferID |-> renderMeshDef.normalBufferID,
     texCoordBufferID |-> renderMeshDef.texCoordBufferID,
     indexBufferID |-> indexBufferID,
     textureID0 |-> textureID0, textureID1 |-> textureID1,
     textureSamplingType |-> sampling,
     vertexShaderType |-> vertexShader, pixelShaderType |-> pixelShader,
     pixelShaderParam0 |-> param0]

\* A list selection that asks for the fade instance first.
\* C29_OpaqueRouting does not hold of it.
OpaqueList_FadingFirst(isChasm, isFading) ==
    IF isFading THEN "fadingDrawCalls"
    ELSE IF isChasm THEN "chasmDrawCalls"
    ELSE "staticDrawCalls"

\* The list an opaque draw call of a voxel goes to.
OpaqueList(isChasm, isFading) ==
    IF isChasm THEN "chasmDrawCalls"
    ELSE IF isFading THEN "fadingDrawCalls"
    ELSE "staticDrawCalls"

AddTo(rc, list, drawCall) == [rc EXCEPT ![list] = Append(@, drawCall)]

\* The opaque index buffer loop of one voxel. acc = [rc, crashed].
RECURSIVE OpaqueDrawCalls(_, _, _, _, _, _, _, _)
OpaqueDrawCalls(bufferIndex, acc, c, chunk, k, renderMeshDef, ceilingScale, chasmAnimPercent) ==
    LET v == chunk.voxels[k]
        isChasm == v.chasmDefID >= 0
        isFading == v.fadePercent >= 0
        textureAssetIndex == GetVoxelOpaqueTextureAssetIndex(v.type, bufferIndex)
        textureDef == chunk.textureDefs[v.textureDefID + 1]
        textureID ==
            IF isChasm
            THEN getChasmFloorTextureID(c, acc.rc.position, v.chasmDefID, chasmAnimPercent)
            ELSE VoxelTextureID(c, textureDef[textureAssetIndex + 1])
        drawCall ==
            RenderDrawCall(acc.rc.position, k, -1, <<0, 0, 0>>, Identity, NoScale, renderMeshDef,
                renderMeshDef.opaqueIndexBufferIDs[bufferIndex + 1], textureID, -1,
                IF isChasm THEN "ScreenSpaceRepeatY" ELSE "Default",
                "Voxel",
                IF isFading THEN "OpaqueWithFade" ELSE "Opaque",
                IF isFading THEN <<"fade", v.fadePercent>> ELSE ZeroParam)
        next(a) == OpaqueDrawCalls(bufferIndex + 1, a, c, chunk, k, renderMeshDef,
                                   ceilingScale, chasmAnimPercent)
    IN  IF bufferIndex >= renderMeshDef.opaqueIndexBufferIdCount \/ acc.crashed THEN acc
        \* an unhandled index group of the voxel type, or no such asset in the definition
        ELSE IF ~isChasm /\ (textureAssetIndex < 0 \/ textureAssetIndex >= Len(textureDef))
             THEN [acc EXCEPT !.crashed = TRUE]
        ELSE IF isChasm /\ textureID < 0 THEN [acc EXCEPT !.crashed = TRUE]
        ELSE IF textureID < 0 THEN next(acc)
        ELSE next([acc EXCEPT !.rc = AddTo(@, OpaqueList(isChasm, isFading), drawCall)])

\* A door type switch that passes over the types it has no case for.
\* C28_SplittingNotImplemented does not hold of it.
DoorTypeSignal_Ignored(doorType) == "none"

\* The fatal signal the door type switch raises: DebugNotImplementedMsg for
\* Splitting and for any type it does not know.
DoorTypeSignal(doorType) ==
    IF doorType \in {"Swinging", "Sliding", "Raising"} THEN "none" ELSE "notImplemented"

\* The door branch of the alpha-tested part: one draw call per visible face,
\* in face order, appended to the door list. -1 as doorAnimPercent (no door
\* animation instance) draws the door closed. A door type without a case in
\* the switch gets no draw call.
RECURSIVE DoorDrawCalls(_, _, _, _, _, _, _)
DoorDrawCalls(i, rc, chunk, k, renderMeshDef, textureID, ceilingScale) ==
    LET v == chunk.voxels[k]
        doorType == chunk.doorDefs[v.doorDefID + 1]
        doorAnimPercent == IF v.doorAnimPercent >= 0 THEN v.doorAnimPercent ELSE 0
        face == DoorFaces[i]
        visible == \E j \in 1..Len(v.doorVisibleFaces) : v.doorVisibleFaces[j] = face
        drawCall ==
            CASE doorType = "Swinging" ->
                    RenderDrawCall(rc.position, k, face, <<0, 0, 0>>,
                        [axis |-> "y", baseFace |-> face,
                         amount |-> SwingingRotationAmount(doorAnimPercent)],
                        NoScale, renderMeshDef, renderMeshDef.alphaTestedIndexBufferID,
                        textureID, -1, "Default", "SwingingDoor", "AlphaTested", ZeroParam)
              [] doorType = "Sliding" ->
                    RenderDrawCall(rc.position, k, face, <<0, 0, 0>>,
                        [axis |-> "y", baseFace |-> face, amount |-> 0],
                        <<One, One, DoorScaleAmount(doorAnimPercent)>>,
                        renderMeshDef, renderMeshDef.alphaTestedIndexBufferID,
                        textureID, -1, "Default", "SlidingDoor",
                        "AlphaTestedWithVariableTexCoordUMin",
                        <<"min", DoorTexCoordMin(doorAnimPercent)>>)
              [] doorType = "Raising" ->
                    RenderDrawCall(rc.position, k, face, <<100, -ceilingScale, 100>>,
                        [axis |-> "y", baseFace |-> face, amount |-> 0],
                        <<One, DoorScaleAmount(doorAnimPercent), One>>,
                        renderMeshDef, renderMeshDef.alphaTestedIndexBufferID,
                        textureID, -1, "Default", "RaisingDoor",
                        "AlphaTestedWithVariableTexCoordVMin",
                        <<"min", DoorTexCoordMin(doorAnimPercent)>>)
    IN  IF i > Len(DoorFaces) \/ doorType \notin {"Swinging", "Sliding", "Raising"} THEN rc
        ELSE IF ~visible
             THEN DoorDrawCalls(i + 1, rc, chunk, k, renderMeshDef, textureID, ceilingScale)
        ELSE DoorDrawCalls(i + 1, AddTo(rc, "doorDrawCalls", drawCall), chunk, k,
                           renderMeshDef, textureID, ceilingScale)

\* VoxelDoorVisibilityInstance::MAX_FACE_COUNT.
MAX_FACE_COUNT == 2

\* The number of entries of visibleDoorFaces that are set for the voxel.
VisibleDoorFaceCount(v) ==
    Cardinality({i \in 1..Len(DoorFaces) :
                    \E j \in 1..Len(v.doorVisibleFaces) : v.doorVisibleFaces[j] = DoorFaces[i]})

\* The alpha-tested part of one voxel. skip = TRUE stands for the "continue"
\* that leaves the voxel before its chasm wall part.
AlphaTestedDrawCalls(acc, c, chunk, k, renderMeshDef, ceilingScale, updateStatics, updateAnimating) ==
    LET v == chunk.voxels[k]
        isDoor == v.doorDefID >= 0
        isChasm == v.chasmDefID >= 0
        textureAssetIndex == GetVoxelAlphaTestedTextureAssetIndex(v.type)
        textureDef == chunk.textureDefs[v.textureDefID + 1]
        textureID == VoxelTextureID(c, textureDef[textureAssetIndex + 1])
        doorType == chunk.doorDefs[v.doorDefID + 1]
        out(rc, signal, skip) ==
            [rc |-> rc, crashed |-> signal # "none", signal |-> signal, skip |-> skip]
    IN  IF renderMeshDef.alphaTestedIndexBufferID < 0 THEN out(acc.rc, "none", FALSE)
        ELSE IF ~(updateStatics \/ (updateAnimating /\ isDoor)) THEN out(acc.rc, "none", FALSE)
        ELSE IF isChasm \/ textureAssetIndex < 0 \/ textureAssetIndex >= Len(textureDef)
             THEN out(acc.rc, "assert", FALSE)
        ELSE IF textureID < 0 THEN out(acc.rc, "none", TRUE)
        ELSE IF ~isDoor
             THEN out(AddTo(acc.rc, "staticDrawCalls",
                        RenderDrawCall(acc.rc.position, k, -1, <<0, 0, 0>>, Identity, NoScale,
                            renderMeshDef, renderMeshDef.alphaTestedIndexBufferID, textureID, -1,
                            "Default", "Voxel", "AlphaTested", ZeroParam)),
                      "none", FALSE)
        ELSE IF ~v.hasDoorVisInst THEN out(acc.rc, "none", TRUE)
        ELSE IF VisibleDoorFaceCount(v) > MAX_FACE_COUNT THEN out(acc.rc, "assert", FALSE)
        ELSE out(DoorDrawCalls(1, acc.rc, chunk, k, renderMeshDef, textureID, ceilingScale),
                 DoorTypeSignal(doorType), FALSE)

\* The chasm wall part of one voxel.
ChasmWallDrawCalls(acc, c, chunk, k, renderMeshDef, chasmAnimPercent, updateStatics, updateAnimating) ==
    LET v == chunk.voxels[k]
        isChasm == v.chasmDefID >= 0
        isAnimatingChasm == v.chasmType # "Dry"
        textureID0 == getChasmFloorTextureID(c, acc.rc.position, v.chasmDefID, chasmAnimPercent)
        textureID1 == getChasmWallTextureID(c, acc.rc.position, v.chasmDefID)
    IN  IF ~isChasm \/ k \notin DOMAIN acc.rc.chasmWallIndexBufferIDs THEN acc
        ELSE IF v.type # "Chasm" THEN [acc EXCEPT !.crashed = TRUE]
        ELSE IF ~((~isAnimatingChasm /\ updateStatics) \/ (isAnimatingChasm /\ updateAnimating))
             THEN acc
        ELSE IF textureID0 < 0 \/ textureID1 < 0 THEN [acc EXCEPT !.crashed = TRUE]
        ELSE [acc EXCEPT !.rc = AddTo(@, "chasmDrawCalls",
                 RenderDrawCall(acc.rc.position, k, -1, <<0, 0, 0>>, Identity, NoScale,
                     renderMeshDef, acc.rc.chasmWallIndexBufferIDs[k], textureID0, textureID1,
                     "ScreenSpaceRepeatY", "Voxel", "OpaqueWithAlphaTestLayer", ZeroParam))]

\* One iteration of the voxel loop.
VoxelDrawCalls(acc, c, chunk, k, ceilingScale, chasmAnimPercent, updateStatics, updateAnimating) ==
    LET v == chunk.voxels[k]
        renderMeshDef == acc.rc.meshDefs[acc.rc.meshDefMappings[v.meshDefID] + 1]
        canAnimate == v.doorDefID >= 0 \/ v.chasmDefID >= 0 \/ v.fadePercent >= 0
        o == IF (~canAnimate /\ updateStatics) \/ (canAnimate /\ updateAnimating)
             THEN OpaqueDrawCalls(0, acc, c, chunk, k, renderMeshDef, ceilingScale, chasmAnimPercent)
             ELSE acc
        a == AlphaTestedDrawCalls(o, c, chunk, k, renderMeshDef, ceilingScale,
                                  updateStatics, updateAnimating)
        oa == [rc |-> a.rc, crashed |-> a.crashed]
    IN  IF chunk.meshDefs[v.meshDefID + 1].isEmpty THEN acc
        ELSE IF v.meshDefID \notin DOMAIN acc.rc.meshDefMappings
             THEN [acc EXCEPT !.crashed = TRUE]
        ELSE IF o.crashed THEN o
        ELSE IF a.crashed \/ a.skip THEN oa
        ELSE ChasmWallDrawCalls(oa, c, chunk, k, renderMeshDef, chasmAnimPercent,
                                updateStatics, updateAnimating)

RECURSIVE VoxelsFrom(_, _, _, _, _, _, _, _)
VoxelsFrom(k, acc, c, chunk, ceilingScale, chasmAnimPercent, updateStatics, updateAnimating) ==
    IF k > Len(chunk.voxels) \/ acc.crashed THEN acc
    ELSE VoxelsFrom(k + 1,
             VoxelDrawCalls(acc, c, chunk, k, ceilingScale, chasmAnimPercent,
                            updateStatics, updateAnimating),
             c, chunk, ceilingScale, chasmAnimPercent, updateStatics, updateAnimating)

\* c holds the three caches the draw calls are resolved against.
loadVoxelDrawCalls(rc, c, chunk, ceilingScale, chasmAnimPercent, updateStatics, updateAnimating) ==
    VoxelsFrom(1, [rc |-> rc, crashed |-> FALSE], c, chunk, ceilingScale, chasmAnimPercent,
               updateStatics, updateAnimating)

\* The two list-clearing steps of rebuildVoxelChunkDrawCalls.
ClearRequestedLists(rc, updateStatics, updateAnimating) ==
    [rc EXCEPT !.staticDrawCalls = IF updateStatics THEN <<>> ELSE @,
               !.doorDrawCalls = IF updateAnimating THEN <<>> ELSE @,
               !.chasmDrawCalls = IF updateAnimating THEN <<>> ELSE @,
               !.fadingDrawCalls = IF updateAnimating THEN <<>> ELSE @]

\* rebuildVoxelChunkDrawCalls on the render chunk it found: [rc, crashed].
RebuiltChunk(rc, c, chunk, ceilingScale, chasmAnimPercent, updateStatics, updateAnimating) ==
    loadVoxelDrawCalls(ClearRequestedLists(rc, updateStatics, updateAnimating), c, chunk,
                       ceilingScale, chasmAnimPercent, updateStatics, updateAnimating)

\* tryGetRenderChunkIndex: one-based position of the first render chunk at
\* chunkPos, 0 for std::nullopt.
tryGetRenderChunkIndex(chunks, chunkPos) ==
    FindFirst({k \in 1..Len(chunks) : chunks[k].position = chunkPos})

\* A flattening that puts the door list before the static list.
\* C7_FlatListIsConcatenation does not hold of it.
RECURSIVE FlattenFrom_DoorsFirst(_, _)
FlattenFrom_DoorsFirst(i, chunks) ==
    IF i > Len(chunks) THEN <<>>
    ELSE chunks[i].doorDrawCalls \o chunks[i].staticDrawCalls \o
         chunks[i].chasmDrawCalls \o chunks[i].fadingDrawCalls \o
         FlattenFrom_DoorsFirst(i + 1, chunks)

RECURSIVE FlattenFrom(_, _)
FlattenFrom(i, chunks) ==
    IF i > Len(chunks) THEN <<>>
    ELSE chunks[i].staticDrawCalls \o chunks[i].doorDrawCalls \o
         chunks[i].chasmDrawCalls \o chunks[i].fadingDrawCalls \o
         FlattenFrom(i + 1, chunks)

\* ------------------------------------------------------------------- state
TableSlots == 1..15

Caches == [voxelTextures |-> voxelTextures,
           chasmFloorTextureLists |-> chasmFloorTextureLists,
           chasmTextureKeys |-> chasmTextureKeys]

\* The working state an operation starts from.
Working == [voxelTextures |-> voxelTextures,
            chasmFloorTextureLists |-> chasmFloorTextureLists,
            chasmTextureKeys |-> chasmTextureKeys,
            gpu |-> gpu, calls |-> 0, crashed |-> FALSE]

ChunksAt(chunks, chunkPos) == {i \in 1..Len(chunks) : chunks[i].position = chunkPos}

\* -------------------------------------------------------- ColorOverrideInfo
\* Character positions of the text a color override is given for.
MaxCharIndex == 2
CharIndices == 0..MaxCharIndex

\* The colors the caller overrides with.
OverrideColors == {"Red", "Blue"}

\* ColorOverrideInfo::Entry.
Entry(charIndex, color) == [charIndex |-> charIndex, color |-> color]

\* ColorOverrideInfo::getEntryCount.
getEntryCount(es) == Len(es)

\* ColorOverrideInfo::findEntryIndex: the zero-based position of the first
\* entry with charIndex, -1 for std::nullopt.
findEntryIndex(es, charIndex) ==
    FindFirst({k \in 1..Len(es) : es[k].charIndex = charIndex}) - 1

\* No call has been made on the ColorOverrideInfo yet.
NoCall == [op |-> "none", charIndex |-> -1, color |-> "none"]

Init ==
    /\ phase = "constructed"
    /\ voxelTextures = <<>>
    /\ chasmFloorTextureLists = <<>>
    /\ chasmTextureKeys = <<>>
    /\ chasmWallIndexBufferIDs = [i \in TableSlots |-> -1]
    /\ renderChunks = <<>>
    /\ drawCallsCache = <<>>
    /\ gpu = [next |-> 0, live |-> {}, texels |-> {}, indices |-> {}, misuse |-> {},
             failures |-> 0]
    /\ world = [p \in Positions |-> 0]
    /\ crashed = FALSE
    /\ steps = 0
    /\ entries = <<>>
    /\ lastCall = NoCall

CanRun == phase = "ready" /\ ~crashed /\ steps < MaxSteps

\* failAt = 0 is an operation in which every creation call succeeds. A run in
\* which the renderer refuses a call is explored FaultCost steps less deep.
StepCost(failAt) == IF failAt = 0 THEN 1 ELSE 1 + FaultCost
CanFail(failAt) == steps + StepCost(failAt) <= MaxSteps
Failed(g, failAt) == [g EXCEPT !.failures = @ + (IF failAt = 0 THEN 0 ELSE 1)]

\* ----------------------------------------------------------------- actions
\* CHASM_WALL_NORTH, _EAST, _SOUTH, _WEST: the bits of a face combination, in
\* the order 1 = north, 2 = east, 3 = south, 4 = west.
ChasmWallFaceBits == <<1, 2, 4, 8>>

\* (baseIndex & CHASM_WALL_<face>) != 0
HasChasmWallFace(baseIndex, face) == (baseIndex \div ChasmWallFaceBits[face]) % 2 = 1

\* The size of an ArenaMeshUtils::ChasmWallIndexBuffer.
IndicesPerFace == 6

\* The index pattern WriteChasmWallRendererIndexBuffers gives a face: its k-th
\* index is written <<face, k>>.
ChasmWallFaceIndices(face) == [k \in 1..IndicesPerFace |-> <<face, k>>]

\* A buffer filled in the order west, south, east, north.
\* C23_TableHoldsFacePatterns does not hold of it.
ChasmWallTotalIndices_WestFirst(baseIndex) ==
    LET tryWriteIndices(face) ==
            IF HasChasmWallFace(baseIndex, face) THEN ChasmWallFaceIndices(face) ELSE <<>>
    IN  tryWriteIndices(4) \o tryWriteIndices(3) \o tryWriteIndices(2) \o tryWriteIndices(1)

\* What init writes into totalIndicesBuffer for baseIndex: the tryWriteIndices
\* calls for north, east, south and west, in that order.
ChasmWallTotalIndices(baseIndex) ==
    LET tryWriteIndices(face) ==
            IF HasChasmWallFace(baseIndex, face) THEN ChasmWallFaceIndices(face) ELSE <<>>
    IN  tryWriteIndices(1) \o tryWriteIndices(2) \o tryWriteIndices(3) \o tryWriteIndices(4)

\* The slot loop of RenderChunkManager::init: the slot of baseIndex i (array
\* position i - 1) gets a fresh index buffer populated with the indices of
\* its faces, or keeps -1 when it has no face or its creation fails.
RECURSIVE InitSlotsFrom(_, _, _, _)
InitSlotsFrom(i, table, m, failAt) ==
    IF i > Len(table) THEN [table |-> table, m |-> m]
    ELSE IF \A face \in 1..4 : ~HasChasmWallFace(i, face)
         THEN InitSlotsFrom(i + 1, table, m, failAt)
    ELSE LET r == TryCreate(m, failAt)
         IN  IF ~r.ok THEN InitSlotsFrom(i + 1, table, r.m, failAt)
             ELSE InitSlotsFrom(i + 1, [table EXCEPT ![i] = r.id],
                      [r.m EXCEPT !.gpu.indices = @ \cup {<<r.id, ChasmWallTotalIndices(i)>>}],
                      failAt)

init(failAt) ==
    /\ phase = "constructed" /\ steps < MaxSteps
    /\ CanFail(failAt)
    /\ LET r == InitSlotsFrom(1, [i \in TableSlots |-> -1], Working, failAt)
       IN  /\ chasmWallIndexBufferIDs' = r.table
           /\ gpu' = Failed(r.m.gpu, failAt)
    /\ phase' = "ready"
    /\ steps' = steps + StepCost(failAt)
    /\ UNCHANGED colorOverrideVars
    /\ UNCHANGED <<voxelTextures, chasmFloorTextureLists, chasmTextureKeys, renderChunks,
                   drawCallsCache, world, crashed>>

\* More renderer creation calls than loading the chunk can make.
CreateCallsBound(chunk) ==
    SeqSum([i \in 1..Len(chunk.textureDefs) |-> Len(chunk.textureDefs[i])])
    + SeqSum([i \in 1..Len(chunk.chasmDefs) |-> 2 + Len(chunk.chasmDefs[i].textureAssets)])
    + 7 * Len(chunk.meshDefs)

\* loadVoxelChunk's result on the working state m: [rc, m].
LoadedChunk(id, m, table, failAt) ==
    LET chunk == Chunks[id]
        m1 == loadVoxelTextures(chunk, m, failAt)
        r == loadVoxelMeshBuffers(NewRenderChunk(chunk.position, id), chunk, m1, failAt)
        rc == loadVoxelChasmWalls(r.rc, chunk, table)
    IN  IF m1.crashed THEN [rc |-> NewRenderChunk(chunk.position, id), m |-> m1]
        ELSE [rc |-> [rc EXCEPT !.created = m1.gpu.next..(r.m.gpu.next - 1)], m |-> r.m]

loadVoxelChunk(id, failAt) ==
    /\ CanRun
    /\ CanFail(failAt)
    /\ LET chunk == Chunks[id]
           r == LoadedChunk(id, Working, chasmWallIndexBufferIDs, failAt)
       IN  /\ failAt <= r.m.calls
           /\ IF r.m.crashed
              THEN /\ crashed' = TRUE
                   /\ UNCHANGED <<voxelTextures, chasmFloorTextureLists, chasmTextureKeys,
                                  renderChunks, gpu>>
              ELSE /\ crashed' = FALSE
                   /\ voxelTextures' = r.m.voxelTextures
                   /\ chasmFloorTextureLists' = r.m.chasmFloorTextureLists
                   /\ chasmTextureKeys' = r.m.chasmTextureKeys
                   /\ gpu' = Failed(r.m.gpu, failAt)
                   /\ renderChunks' = Append(renderChunks, r.rc)
           /\ world' = [world EXCEPT ![chunk.position] = id]
    /\ steps' = steps + StepCost(failAt)
    /\ UNCHANGED colorOverrideVars
    /\ UNCHANGED <<phase, chasmWallIndexBufferIDs, drawCallsCache>>

\* A rebuild that takes the crash path when the position has no render chunk.
\* C9_RebuildAbsentReturns does not hold of it.
rebuildVoxelChunkDrawCalls_FatalOnAbsent(id, ceilingScale, chasmAnimPercent, updateStatics, updateAnimating) ==
    /\ CanRun
    /\ world[Chunks[id].position] \in {0, id}
    /\ LET chunk == Chunks[id]
           index == tryGetRenderChunkIndex(renderChunks, chunk.position)
           r == RebuiltChunk(renderChunks[index], Caches, chunk, ceilingScale,
                             chasmAnimPercent, updateStatics, updateAnimating)
       IN  /\ IF index = 0 \/ r.crashed
              THEN crashed' = TRUE /\ UNCHANGED renderChunks
              ELSE /\ renderChunks' = [renderChunks EXCEPT ![index] = r.rc]
                   /\ crashed' = FALSE
    /\ steps' = steps + 1
    /\ UNCHANGED colorOverrideVars
    /\ UNCHANGED <<phase, voxelTextures, chasmFloorTextureLists, chasmTextureKeys,
                   chasmWallIndexBufferIDs, drawCallsCache, gpu, world>>

\* The caller passes the VoxelChunk it holds at the position (any chunk of that
\* position when it holds none there).
rebuildVoxelChunkDrawCalls(id, ceilingScale, chasmAnimPercent, updateStatics, updateAnimating) ==
    /\ CanRun
    /\ world[Chunks[id].position] \in {0, id}
    /\ LET chunk == Chunks[id]
           index == tryGetRenderChunkIndex(renderChunks, chunk.position)
           r == RebuiltChunk(renderChunks[index], Caches, chunk, ceilingScale,
                             chasmAnimPercent, updateStatics, updateAnimating)
       IN  /\ IF index = 0
              \* DebugLogError, then return
              THEN UNCHANGED <<renderChunks, crashed>>
              ELSE IF r.crashed
              THEN crashed' = TRUE /\ UNCHANGED renderChunks
              ELSE /\ renderChunks' = [renderChunks EXCEPT ![index] = r.rc]
                   /\ crashed' = FALSE
    /\ steps' = steps + 1
    /\ UNCHANGED colorOverrideVars
    /\ UNCHANGED <<phase, voxelTextures, chasmFloorTextureLists, chasmTextureKeys,
                   chasmWallIndexBufferIDs, drawCallsCache, gpu, world>>

\* unloadVoxelChunk's result on the render chunks and the renderer: [renderChunks, gpu].
UnloadedChunk(chunks, g, chunkPos) ==
    LET index == tryGetRenderChunkIndex(chunks, chunkPos)
    IN  IF index = 0
        THEN [renderChunks |-> chunks, gpu |-> g]
        ELSE [renderChunks |-> RemoveAt(chunks, index),
              gpu |-> RenderChunkFreeBuffers(chunks[index], g)]

\* An unload that frees the render chunk's buffers and keeps the render chunk.
\* C35_CurrentFlatListHandlesOwned does not hold of it.
unloadVoxelChunk_KeepingChunk(chunkPos) ==
    /\ CanRun
    /\ LET r == UnloadedChunk(renderChunks, gpu, chunkPos)
       IN  gpu' = r.gpu
    /\ world' = [world EXCEPT ![chunkPos] = 0]
    /\ steps' = steps + 1
    /\ UNCHANGED colorOverrideVars
    /\ UNCHANGED <<phase, voxelTextures, chasmFloorTextureLists, chasmTextureKeys,
                   chasmWallIndexBufferIDs, renderChunks, drawCallsCache, crashed>>

\* An unload that also empties the flat draw call sequence.
\* C8_NoImplicitInvalidation does not hold of it.
unloadVoxelChunk_ClearingFlatList(chunkPos) ==
    /\ CanRun
    /\ LET r == UnloadedChunk(renderChunks, gpu, chunkPos)
       IN  /\ renderChunks' = r.renderChunks
           /\ gpu' = r.gpu
    /\ drawCallsCache' = <<>>
    /\ world' = [world EXCEPT ![chunkPos] = 0]
    /\ steps' = steps + 1
    /\ UNCHANGED colorOverrideVars
    /\ UNCHANGED <<phase, voxelTextures, chasmFloorTextureLists, chasmTextureKeys,
                   chasmWallIndexBufferIDs, crashed>>

\* An unload that also drops the chasm texture keys of the chunk's position.
\* C19_CachesGrowOnly does not hold of it.
unloadVoxelChunk_DroppingKeys(chunkPos) ==
    /\ CanRun
    /\ LET r == UnloadedChunk(renderChunks, gpu, chunkPos)
       IN  /\ renderChunks' = r.renderChunks
           /\ gpu' = r.gpu
    /\ chasmTextureKeys' = SelectSeq(chasmTextureKeys, LAMBDA key : key.chunkPos # chunkPos)
    /\ world' = [world EXCEPT ![chunkPos] = 0]
    /\ steps' = steps + 1
    /\ UNCHANGED colorOverrideVars
    /\ UNCHANGED <<phase, voxelTextures, chasmFloorTextureLists,
                   chasmWallIndexBufferIDs, drawCallsCache, crashed>>

unloadVoxelChunk(chunkPos) ==
    /\ CanRun
    /\ LET r == UnloadedChunk(renderChunks, gpu, chunkPos)
       IN  /\ renderChunks' = r.renderChunks
           /\ gpu' = r.gpu
    /\ world' = [world EXCEPT ![chunkPos] = 0]
    /\ steps' = steps + 1
    /\ UNCHANGED colorOverrideVars
    /\ UNCHANGED <<phase, voxelTextures, chasmFloorTextureLists, chasmTextureKeys,
                   chasmWallIndexBufferIDs, drawCallsCache, crashed>>

rebuildVoxelDrawCallsList ==
    /\ CanRun
    /\ drawCallsCache' = FlattenFrom(1, renderChunks)
    /\ steps' = steps + 1
    /\ UNCHANGED colorOverrideVars
    /\ UNCHANGED <<phase, voxelTextures, chasmFloorTextureLists, chasmTextureKeys,
                   chasmWallIndexBufferIDs, renderChunks, gpu, world, crashed>>

\* The texture handles the two texture caches own, in destruction order.
RECURSIVE FloorListHandles(_)
FloorListHandles(lists) ==
    IF Len(lists) = 0 THEN <<>>
    ELSE Head(lists).objectTextureRefs \o FloorListHandles(Tail(lists))

CacheTextureHandles(textures, lists) ==
    [i \in 1..Len(textures) |-> textures[i].id] \o FloorListHandles(lists)

\* The buffer handles of the render chunks from the i-th on, in release order.
RECURSIVE RenderChunksHandlesFrom(_, _)
RenderChunksHandlesFrom(i, chunks) ==
    IF i > Len(chunks) THEN <<>>
    ELSE MeshDefsHandlesFrom(1, chunks[i].meshDefs) \o RenderChunksHandlesFrom(i + 1, chunks)

\* A teardown that leaves the render chunks' buffers alone.
\* C11_UnloadSceneEmptiesAll does not hold of it.
FreeRenderChunks_KeepingBuffers(chunks, g) == g

\* freeBuffers on every render chunk, in order.
FreeRenderChunks(chunks, g) == FreeHandles(g, RenderChunksHandlesFrom(1, chunks))

unloadScene ==
    /\ CanRun
    /\ voxelTextures' = <<>>
    /\ chasmFloorTextureLists' = <<>>
    /\ chasmTextureKeys' = <<>>
    /\ gpu' = FreeRenderChunks(renderChunks,
                  FreeHandles(gpu, CacheTextureHandles(voxelTextures, chasmFloorTextureLists)))
    /\ renderChunks' = <<>>
    /\ drawCallsCache' = <<>>
    /\ world' = [p \in Positions |-> 0]
    /\ steps' = steps + 1
    /\ UNCHANGED colorOverrideVars
    /\ UNCHANGED <<phase, chasmWallIndexBufferIDs, crashed>>

\* A shutdown that leaves the chasm wall index table's buffers alone.
\* C12_ExclusiveOwnership does not hold of it.
shutdown_KeepingTable ==
    /\ CanRun
    /\ gpu' = FreeHandles(FreeRenderChunks(renderChunks, gpu),
                          CacheTextureHandles(voxelTextures, chasmFloorTextureLists))
    /\ renderChunks' = <<>>
    /\ chasmWallIndexBufferIDs' = [i \in TableSlots |-> -1]
    /\ voxelTextures' = <<>>
    /\ chasmFloorTextureLists' = <<>>
    /\ chasmTextureKeys' = <<>>
    /\ phase' = "shutdown"
    /\ world' = [p \in Positions |-> 0]
    /\ steps' = steps + 1
    /\ UNCHANGED colorOverrideVars
    /\ UNCHANGED <<drawCallsCache, crashed>>

shutdown ==
    /\ CanRun
    /\ gpu' = FreeHandles(
                  FreeHandles(FreeRenderChunks(renderChunks, gpu), chasmWallIndexBufferIDs),
                  CacheTextureHandles(voxelTextures, chasmFloorTextureLists))
    /\ renderChunks' = <<>>
    /\ chasmWallIndexBufferIDs' = [i \in TableSlots |-> -1]
    /\ voxelTextures' = <<>>
    /\ chasmFloorTextureLists' = <<>>
    /\ chasmTextureKeys' = <<>>
    /\ phase' = "shutdown"
    /\ world' = [p \in Positions |-> 0]
    /\ steps' = steps + 1
    /\ UNCHANGED colorOverrideVars
    /\ UNCHANGED <<drawCallsCache, crashed>>

InitFailPoints == {0, 1}
CeilingScales == {100}

Next ==
    \/ \E failAt \in InitFailPoints : init(failAt)
    \/ \E id \in ChunkIds : \E failAt \in 0..CreateCallsBound(Chunks[id]) :
           loadVoxelChunk(id, failAt)
    \/ \E id \in ChunkIds, ceilingScale \in CeilingScales, chasmAnimPercent \in AnimPercents,
          updateStatics \in BOOLEAN, updateAnimating \in BOOLEAN :
           rebuildVoxelChunkDrawCalls(id, ceilingScale, chasmAnimPercent,
                                      updateStatics, updateAnimating)
    \/ \E chunkPos \in Positions : unloadVoxelChunk(chunkPos)
    \/ rebuildVoxelDrawCallsList
    \/ unloadScene
    \/ shutdown

Spec == Init /\ [][Next]_vars

\* ---------------------------------------------- ColorOverrideInfo operations
\* An add that appends without looking for an entry of the char index.
\* C39_DistinctCharIndices does not hold of it.
add_Unchecked(charIndex, color) ==
    /\ entries' = Append(entries, Entry(charIndex, color))
    /\ lastCall' = [op |-> "add", charIndex |-> charIndex, color |-> color]
    /\ UNCHANGED managerVars

\* ColorOverrideInfo::add.
add(charIndex, color) ==
    /\ LET existingEntryIndex == findEntryIndex(entries, charIndex)
       IN  entries' = IF existingEntryIndex >= 0
                      THEN entries
                      ELSE Append(entries, Entry(charIndex, color))
    /\ lastCall' = [op |-> "add", charIndex |-> charIndex, color |-> color]
    /\ UNCHANGED managerVars

\* ColorOverrideInfo::clear.
clear ==
    /\ entries' = <<>>
    /\ lastCall' = [op |-> "clear", charIndex |-> -1, color |-> "none"]
    /\ UNCHANGED managerVars

ColorOverrideNext ==
    \/ \E charIndex \in CharIndices, color \in OverrideColors : add(charIndex, color)
    \/ clear

\* A ColorOverrideInfo on its own, from its construction.
ColorOverrideSpec == Init /\ [][ColorOverrideNext]_vars

\* ================================================================= properties
Range(s) == {s[i] : i \in 1..Len(s)}

\* s and t hold the same elements the same number of times.
SameBag(s, t) ==
    /\ Len(s) = Len(t)
    /\ \A x \in Range(s) \cup Range(t) :
           Cardinality({i \in 1..Len(s) : s[i] = x}) = Cardinality({i \in 1..Len(t) : t[i] = x})

ListNames == <<"staticDrawCalls", "doorDrawCalls", "chasmDrawCalls", "fadingDrawCalls">>

Ready == phase = "ready" /\ ~crashed

\* The render chunks whose position the caller holds the same VoxelChunk at.
HeldChunks == {i \in 1..Len(renderChunks) : world[renderChunks[i].position] = renderChunks[i].srcChunk}

\* ------------------------------------------------------------------------ C1
ChunkTextureAssets(chunk) ==
    UNION {Range(chunk.textureDefs[i]) : i \in 1..Len(chunk.textureDefs)}

CachedAssets == {voxelTextures[i].textureAsset : i \in 1..Len(voxelTextures)}

OnePerAsset(textures) ==
    \A i, j \in 1..Len(textures) :
        i # j => /\ textures[i].textureAsset # textures[j].textureAsset
                 /\ textures[i].id # textures[j].id

\* A step in which loadVoxelChunk added a render chunk and no creation call was refused.
LoadedWithoutFault ==
    /\ Len(renderChunks') = Len(renderChunks) + 1
    /\ gpu'.failures = gpu.failures

\* C1: in every reachable state the voxel texture cache holds at most one entry,
\* with a handle of its own, per texture asset; a load in which every creation
\* succeeds and every asset exists adds one entry per distinct asset of the
\* chunk that was not cached before (N references, M repeats: N - M entries).
C1_OneEntryPerAsset ==
    /\ [](OnePerAsset(voxelTextures))
    /\ [][LoadedWithoutFault =>
            LET chunk == Chunks[renderChunks'[Len(renderChunks')].srcChunk]
                assets == ChunkTextureAssets(chunk)
            IN  assets \cap MissingAssets = {} =>
                    Len(voxelTextures') =
                        Len(voxelTextures) + Cardinality(assets \ CachedAssets)]_vars

\* Two chunks that share a texture asset are loaded and the asset is cached.
C1_Witness ==
    \E i, j \in 1..Len(renderChunks) :
        /\ renderChunks[i].srcChunk # renderChunks[j].srcChunk
        /\ ChunkTextureAssets(Chunks[renderChunks[i].srcChunk])
               \cap ChunkTextureAssets(Chunks[renderChunks[j].srcChunk])
               \cap CachedAssets # {}

\* ------------------------------------------------------------------------ C2
SameChasmContent(d1, d2) ==
    /\ d1.animType = d2.animType
    /\ IF d1.animType = "SolidColor"
       THEN d1.paletteIndex = d2.paletteIndex
       ELSE d1.textureAssets = d2.textureAssets

SameListContent(l1, l2) ==
    /\ l1.animType = l2.animType
    /\ IF l1.animType = "SolidColor"
       THEN l1.paletteIndex = l2.paletteIndex
       ELSE l1.textureAssets = l2.textureAssets

\* The chasm definitions of the held chunks that have a chasm texture key.
KeyedChasmDefs ==
    {e \in UNION {{[pos |-> renderChunks[i].position, id |-> d - 1,
                    def |-> Chunks[renderChunks[i].srcChunk].chasmDefs[d]] :
                      d \in 1..Len(Chunks[renderChunks[i].srcChunk].chasmDefs)} :
                  i \in HeldChunks} :
        FindChasmTextureKey(chasmTextureKeys, e.pos, e.id) # 0}

KeyFloorListIndex(e) ==
    chasmTextureKeys[FindChasmTextureKey(chasmTextureKeys, e.pos, e.id)].chasmFloorListIndex

\* C2: two chasm definitions with a key that have the same animation type and
\* content carry the same floor-texture-list index, definitions that differ
\* carry different indices, and no two entries of the floor-list cache hold
\* the same content.
C2_ChasmContentDedup ==
    /\ \A a, b \in KeyedChasmDefs :
           SameChasmContent(a.def, b.def) <=> KeyFloorListIndex(a) = KeyFloorListIndex(b)
    /\ \A i, j \in 1..Len(chasmFloorTextureLists) :
           i # j => ~SameListContent(chasmFloorTextureLists[i], chasmFloorTextureLists[j])

\* ------------------------------------------------------------------------ C3
\* C3: for a loaded chunk, a statics-only rebuild followed by an animating-only
\* rebuild leaves each of the four lists with the draw calls a rebuild with
\* both flags leaves in it.
C3_SplitRebuildEqualsJoint ==
    Ready =>
        \A i \in HeldChunks, ceilingScale \in CeilingScales, chasmAnimPercent \in AnimPercents :
            LET rc == renderChunks[i]
                chunk == Chunks[rc.srcChunk]
                joint == RebuiltChunk(rc, Caches, chunk, ceilingScale, chasmAnimPercent,
                                      TRUE, TRUE)
                statics == RebuiltChunk(rc, Caches, chunk, ceilingScale, chasmAnimPercent,
                                        TRUE, FALSE)
                split == RebuiltChunk(statics.rc, Caches, chunk, ceilingScale,
                                      chasmAnimPercent, FALSE, TRUE)
            IN  (~joint.crashed /\ ~statics.crashed /\ ~split.crashed) =>
                    \A l \in Range(ListNames) : SameBag(split.rc[l], joint.rc[l])

\* ------------------------------------------------------------------------ C4
SameLists(names) ==
    /\ Len(renderChunks') = Len(renderChunks)
    /\ \A i \in 1..Len(renderChunks), l \in names : renderChunks'[i][l] = renderChunks[i][l]

\* C4: a statics-only rebuild leaves the door, chasm and fading lists of every
\* render chunk as they were, and an animating-only rebuild leaves every static
\* list as it was; the lists of the other render chunks do not change.
C4_RebuildTouchesOnlyRequested ==
    [][\A id \in ChunkIds, ceilingScale \in CeilingScales, chasmAnimPercent \in AnimPercents :
          LET index == tryGetRenderChunkIndex(renderChunks, Chunks[id].position)
              others == \A i \in 1..Len(renderChunks) :
                            i # index => renderChunks'[i] = renderChunks[i]
          IN  /\ rebuildVoxelChunkDrawCalls(id, ceilingScale, chasmAnimPercent, TRUE, FALSE) =>
                     SameLists({"doorDrawCalls", "chasmDrawCalls", "fadingDrawCalls"}) /\ others
              /\ rebuildVoxelChunkDrawCalls(id, ceilingScale, chasmAnimPercent, FALSE, TRUE) =>
                     SameLists({"staticDrawCalls"}) /\ others]_vars

\* ------------------------------------------------------------------------ C5
CanAnimate(v) == v.doorDefID >= 0 \/ v.chasmDefID >= 0 \/ v.fadePercent >= 0

\* Every draw call of rc is in a list its voxel's routing allows.
RoutedXor(rc, chunk) ==
    \A l \in Range(ListNames) : \A n \in 1..Len(rc[l]) :
        LET v == chunk.voxels[rc[l][n].position[2]]
        IN  /\ CanAnimate(v) <=> l # "staticDrawCalls"
            /\ v.doorDefID >= 0 => l = "doorDrawCalls"

\* C5: after a rebuild of all lists every draw call of a door, chasm or fading
\* voxel is in the door, chasm or fading list, every draw call of another voxel
\* is in the static list, and a door's draw calls are in the door list whether
\* or not it has an animation instance.
C5_AnimatingXorStatic ==
    [][\A id \in ChunkIds, ceilingScale \in CeilingScales, chasmAnimPercent \in AnimPercents :
          LET index == tryGetRenderChunkIndex(renderChunks, Chunks[id].position)
          IN  (/\ index # 0
               /\ rebuildVoxelChunkDrawCalls(id, ceilingScale, chasmAnimPercent, TRUE, TRUE)
               /\ ~crashed') =>
                  RoutedXor(renderChunks'[index], Chunks[id])]_vars

\* ------------------------------------------------------------------------ C6
\* C6: loading a chunk at a free position and unloading that position right
\* away leaves the texture cache, the floor-texture lists and the chasm texture
\* keys at their sizes, leaves no key of that position that was not there
\* before, and leaves no render chunk at the position.
C6_LoadUnloadLeavesCaches ==
    Ready =>
        \A id \in ChunkIds :
            LET chunkPos == Chunks[id].position
                l == LoadedChunk(id, Working, chasmWallIndexBufferIDs, 0)
                u == UnloadedChunk(Append(renderChunks, l.rc), l.m.gpu, chunkPos)
            IN  (ChunksAt(renderChunks, chunkPos) = {} /\ ~l.m.crashed) =>
                    /\ Len(l.m.voxelTextures) = Len(voxelTextures)
                    /\ Len(l.m.chasmFloorTextureLists) = Len(chasmFloorTextureLists)
                    /\ Len(l.m.chasmTextureKeys) = Len(chasmTextureKeys)
                    /\ \A k \in Range(l.m.chasmTextureKeys) :
                           k.chunkPos = chunkPos => k \in Range(chasmTextureKeys)
                    /\ ChunksAt(u.renderChunks, chunkPos) = {}

\* ------------------------------------------------------------------------ C7
ChunkLists(rc) ==
    <<rc.staticDrawCalls, rc.doorDrawCalls, rc.chasmDrawCalls, rc.fadingDrawCalls>>

ChunkDrawCallCount(rc) == SeqSum([l \in 1..4 |-> Len(ChunkLists(rc)[l])])

\* Where list l of render chunk i starts in the flat sequence (zero-based).
FlatOffset(chunks, i, l) ==
    SeqSum([j \in 1..(i - 1) |-> ChunkDrawCallCount(chunks[j])])
    + SeqSum([k \in 1..(l - 1) |-> Len(ChunkLists(chunks[i])[k])])

\* C7: after rebuildVoxelDrawCallsList the flat sequence is as long as all
\* lists together and holds, per render chunk in load order, the static, door,
\* chasm and fading list in that order, each in its own order.
C7_FlatListIsConcatenation ==
    [][rebuildVoxelDrawCallsList =>
          /\ Len(drawCallsCache') =
                 SeqSum([i \in 1..Len(renderChunks) |-> ChunkDrawCallCount(renderChunks[i])])
          /\ \A i \in 1..Len(renderChunks), l \in 1..4 :
                 \A n \in 1..Len(ChunkLists(renderChunks[i])[l]) :
                     drawCallsCache'[FlatOffset(renderChunks, i, l) + n] =
                         ChunkLists(renderChunks[i])[l][n]]_vars

\* The flat sequence was computed from two render chunks, one of which has
\* draw calls in its static, door and chasm lists.
C7_Witness ==
    /\ Len(renderChunks) >= 2
    /\ \E i \in 1..Len(renderChunks) :
           /\ Len(renderChunks[i].staticDrawCalls) > 0
           /\ Len(renderChunks[i].doorDrawCalls) > 0
           /\ Len(renderChunks[i].chasmDrawCalls) > 0
    /\ drawCallsCache # <<>>
    /\ Len(drawCallsCache) =
           SeqSum([i \in 1..Len(renderChunks) |-> ChunkDrawCallCount(renderChunks[i])])

\* ------------------------------------------------------------------------ C8
\* C8: the sequence getVoxelDrawCalls returns changes only in a step of
\* rebuildVoxelDrawCallsList or unloadScene; loadVoxelChunk,
\* rebuildVoxelChunkDrawCalls and unloadVoxelChunk leave it as it was.
C8_NoImplicitInvalidation ==
    [][drawCallsCache' # drawCallsCache => (rebuildVoxelDrawCallsList \/ unloadScene)]_vars

\* The flat sequence still holds draw calls of a chunk that was unloaded since.
C8_Witness ==
    /\ Ready
    /\ drawCallsCache # <<>>
    /\ \E n \in 1..Len(drawCallsCache) :
           ChunksAt(renderChunks, drawCallsCache[n].position[1]) = {}

\* ------------------------------------------------------------------------ C9
\* rebuildVoxelChunkDrawCalls for a position that has no render chunk.
RebuildOnAbsent(id, ceilingScale, chasmAnimPercent, updateStatics, updateAnimating) ==
    /\ tryGetRenderChunkIndex(renderChunks, Chunks[id].position) = 0
    /\ rebuildVoxelChunkDrawCalls(id, ceilingScale, chasmAnimPercent,
                                  updateStatics, updateAnimating)

\* C9 as stated: rebuildVoxelChunkDrawCalls for a position without a render
\* chunk ends in the assertion/crash path.
C9_RebuildAbsentIsFatal ==
    [][\A id \in ChunkIds, ceilingScale \in CeilingScales, chasmAnimPercent \in AnimPercents,
          updateStatics \in BOOLEAN, updateAnimating \in BOOLEAN :
          RebuildOnAbsent(id, ceilingScale, chasmAnimPercent, updateStatics, updateAnimating)
              => crashed']_vars

\* C9, amended: rebuildVoxelChunkDrawCalls for a position without a render
\* chunk logs an error and returns to the caller; no render chunk, cache,
\* buffer or flat sequence is changed.
C9_RebuildAbsentReturns ==
    [][\A id \in ChunkIds, ceilingScale \in CeilingScales, chasmAnimPercent \in AnimPercents,
          updateStatics \in BOOLEAN, updateAnimating \in BOOLEAN :
          RebuildOnAbsent(id, ceilingScale, chasmAnimPercent, updateStatics, updateAnimating)
              => /\ ~crashed'
                 /\ UNCHANGED <<phase, voxelTextures, chasmFloorTextureLists, chasmTextureKeys,
                                chasmWallIndexBufferIDs, renderChunks, drawCallsCache, gpu>>]_vars

\* Chunks were loaded and unloaded again, and a rebuild for a position without
\* a render chunk can run.
C9_Witness ==
    /\ Ready
    /\ voxelTextures # <<>>
    /\ renderChunks = <<>>
    /\ ENABLED RebuildOnAbsent(1, 100, 60, TRUE, TRUE)

\* ----------------------------------------------------------------------- C10
\* C10: after unloadVoxelChunk(p) no render chunk is at p, every buffer handle
\* the removed render chunk created is released, the other render chunks are
\* as they were with their buffers live, and the texture caches are unchanged.
C10_UnloadRemovesChunk ==
    [][\A p \in Positions :
          LET index == tryGetRenderChunkIndex(renderChunks, p)
          IN  (index # 0 /\ unloadVoxelChunk(p)) =>
                  /\ ChunksAt(renderChunks', p) = {}
                  /\ renderChunks[index].created \cap gpu'.live = {}
                  /\ \A i \in 1..Len(renderChunks) :
                         i # index =>
                             /\ renderChunks[i] \in Range(renderChunks')
                             /\ Range(MeshDefsHandlesFrom(1, renderChunks[i].meshDefs))
                                    \cap gpu.live \subseteq gpu'.live
                  /\ UNCHANGED <<voxelTextures, chasmFloorTextureLists, chasmTextureKeys>>]_vars

\* ----------------------------------------------------------------------- C11
\* The live handles of the global chasm wall index table.
TableHandles(table, g) == {table[i] : i \in DOMAIN table} \cap g.live

\* The handles the two texture caches and the render chunks hold.
SceneHandles ==
    Range(CacheTextureHandles(voxelTextures, chasmFloorTextureLists))
        \cup Range(RenderChunksHandlesFrom(1, renderChunks))

\* C11: after unloadScene the texture cache, the floor-texture lists, the chasm
\* texture keys, the render chunks and the flat draw call sequence are empty,
\* no handle they held is live, and the chasm wall index table and its live
\* buffers are as before.
C11_UnloadSceneEmptiesAll ==
    [][unloadScene =>
          /\ voxelTextures' = <<>> /\ chasmFloorTextureLists' = <<>>
          /\ chasmTextureKeys' = <<>> /\ renderChunks' = <<>> /\ drawCallsCache' = <<>>
          /\ SceneHandles \cap gpu'.live = {}
          /\ chasmWallIndexBufferIDs' = chasmWallIndexBufferIDs
          /\ TableHandles(chasmWallIndexBufferIDs, gpu) \subseteq gpu'.live]_vars

\* A scene was loaded and unloaded: handles beyond the table's were created,
\* the caches and the active set are empty and only table handles are live.
C11_Witness ==
    /\ Ready
    /\ gpu.next > 15
    /\ voxelTextures = <<>> /\ chasmFloorTextureLists = <<>> /\ renderChunks = <<>>
    /\ gpu.live # {}
    /\ gpu.live = TableHandles(chasmWallIndexBufferIDs, gpu)

\* ----------------------------------------------------------------------- C12
\* Every handle some structure holds: the caches' textures, the render chunks'
\* buffers and the valid slots of the chasm wall index table.
OwnedHandles ==
    CacheTextureHandles(voxelTextures, chasmFloorTextureLists)
        \o RenderChunksHandlesFrom(1, renderChunks)
        \o SelectSeq(chasmWallIndexBufferIDs, LAMBDA id : id >= 0)

\* The handles a step releases.
Released == gpu.live \ gpu'.live

\* C12: every live handle is held by exactly one structure and every held
\* handle is live; no handle is released twice; handles are released only by
\* unloadVoxelChunk (the removed render chunk's buffers, never a table buffer),
\* unloadScene and shutdown, or by the load that created them and gave them
\* up; after shutdown no handle is live.
C12_ExclusiveOwnership ==
    /\ [](/\ LET owned == OwnedHandles
             IN  Cardinality(Range(owned)) = Len(owned) /\ Range(owned) = gpu.live
          /\ {id \in gpu.misuse : id >= 0} = {}
          /\ phase = "shutdown" => gpu.live = {})
    /\ [][/\ Released # {} => ((\E p \in Positions : unloadVoxelChunk(p))
                                  \/ unloadScene \/ shutdown)
          /\ \A p \in Positions :
                 LET index == tryGetRenderChunkIndex(renderChunks, p)
                 IN  unloadVoxelChunk(p) =>
                         /\ Released \cap TableHandles(chasmWallIndexBufferIDs, gpu) = {}
                         /\ index = 0 => Released = {}
                         /\ index # 0 =>
                                Released = Range(MeshDefsHandlesFrom(1,
                                                     renderChunks[index].meshDefs))]_vars

\* A load in which a buffer creation was refused left a render chunk with a
\* mesh definition that has index buffers but no vertex buffer.
C12_Witness ==
    /\ Ready
    /\ \E i \in 1..Len(renderChunks) : \E d \in Range(renderChunks[i].meshDefs) :
           d.vertexBufferID < 0 /\ Len(MeshDefHandles(d)) > 0
    /\ Range(OwnedHandles) = gpu.live

\* ----------------------------------------------------------------------- C13
\* The non-empty shapes of the voxel chunk a render chunk was loaded from that
\* have no entry in the render chunk's mesh definition mapping.
UnmappedShapes(rc) ==
    {d \in 0..(Len(Chunks[rc.srcChunk].meshDefs) - 1) :
        /\ ~Chunks[rc.srcChunk].meshDefs[d + 1].isEmpty
        /\ d \notin DOMAIN rc.meshDefMappings}

\* C13: every non-empty voxel mesh definition of a loaded chunk has an entry
\* in the render chunk's mesh definition mapping, also after a load in which a
\* buffer creation failed.
C13_EveryShapeMapped ==
    \A i \in 1..Len(renderChunks) : UnmappedShapes(renderChunks[i]) = {}

\* ----------------------------------------------------------------------- C14
\* The voxel types of the chunks' non-empty shapes and the number of buffers
\* loadVoxelMeshBuffers creates for a shape when nothing fails.
ShapeTypes == {"Wall", "Floor", "Raised", "Edge", "Chasm", "Door"}
ShapeBufferCount(voxelType) ==
    3 + GetOpaqueIndexBufferCount(voxelType) + GetAlphaTestedIndexBufferCount(voxelType)

\* C14: whichever buffer creation of a shape is refused during a load (vertex,
\* normal, texcoord, an opaque index buffer or the alpha-tested index buffer),
\* the refused call is the shape's last creation call and the buffers created
\* for the shape before it are released.
C14_FailureAbortsShape ==
    Ready =>
        \A voxelType \in ShapeTypes : \A failAt \in 1..ShapeBufferCount(voxelType) :
            LET r == LoadMeshDefBuffers(MeshDef(voxelType), Working, failAt)
            IN  r.m.calls = failAt /\ r.m.gpu.live = gpu.live

\* ----------------------------------------------------------------------- C15
\* A RenderVoxelMeshDefinition with everything the shape voxelMeshDef needs.
CompleteMeshDef(d, voxelMeshDef) ==
    /\ d.vertexBufferID >= 0 /\ d.normalBufferID >= 0 /\ d.texCoordBufferID >= 0
    /\ d.opaqueIndexBufferIdCount = voxelMeshDef.opaqueIndicesListCount
    /\ \A b \in 1..d.opaqueIndexBufferIdCount : d.opaqueIndexBufferIDs[b] >= 0
    /\ voxelMeshDef.alphaTestedIndicesListCount > 0 => d.alphaTestedIndexBufferID >= 0

\* The draw calls of a render chunk that draw the mesh definition d.
DrawCallsOf(rc, d) ==
    {l \in 1..4 : \E k \in 1..Len(ChunkLists(rc)[l]) :
        ChunkLists(rc)[l][k].vertexBufferID = d.vertexBufferID
        /\ ChunkLists(rc)[l][k].indexBufferID \in Range(MeshDefHandles(d))}

\* C15: every mesh definition stored in a render chunk is complete for its
\* shape, or holds no buffer and has no draw call.
C15_NoPartialMeshDef ==
    \A i \in 1..Len(renderChunks) :
        LET rc == renderChunks[i]
        IN  \A d \in DOMAIN rc.meshDefMappings :
                LET def == rc.meshDefs[rc.meshDefMappings[d] + 1]
                IN  \/ CompleteMeshDef(def, Chunks[rc.srcChunk].meshDefs[d + 1])
                    \/ /\ Len(MeshDefHandles(def)) = 0
                       /\ def.opaqueIndexBufferIdCount = 0
                       /\ DrawCallsOf(rc, def) = {}

\* ----------------------------------------------------------------------- C16
\* C16: a load never takes a fatal path, whatever assets are missing and
\* whichever creation call the renderer refuses, and neither does a later
\* rebuild of the draw calls of a chunk through the render chunk loaded from it.
C16_RecoverableNeverFatal ==
    [][/\ \A id \in ChunkIds : \A failAt \in 0..CreateCallsBound(Chunks[id]) :
              loadVoxelChunk(id, failAt) => ~crashed'
       /\ \A id \in ChunkIds : \A updateStatics, updateAnimating \in BOOLEAN :
              LET index == tryGetRenderChunkIndex(renderChunks, Chunks[id].position)
              IN  (/\ index # 0
                   /\ renderChunks[index].srcChunk = id
                   /\ \E ceilingScale \in CeilingScales : \E chasmAnimPercent \in AnimPercents :
                          rebuildVoxelChunkDrawCalls(id, ceilingScale, chasmAnimPercent,
                                                     updateStatics, updateAnimating))
                  => ~crashed']_vars

\* ----------------------------------------------------------------------- C17
\* The texture assets of textures.
AssetsOf(textures) == {textures[i].textureAsset : i \in 1..Len(textures)}

\* C17: when the voxel texture definitions of a chunk are loaded and a texture
\* cannot be loaded (its asset is missing, or the renderer refuses its
\* creation), that asset gets no cache entry and every other asset of the
\* chunk's definitions that exists has its entry afterwards; the entries that
\* were cached before stay where they were.
C17_FailureSkipsOneEntry ==
    Ready =>
        \A id \in ChunkIds : \A failAt \in 0..CreateCallsBound(Chunks[id]) :
            LET m == LoadTextureDefsFrom(1, Chunks[id], Working, failAt)
                wanted == ChunkTextureAssets(Chunks[id]) \ MissingAssets
                lacking == wanted \ AssetsOf(m.voxelTextures)
            IN  /\ Cardinality(lacking) = IF failAt \in 1..m.calls THEN 1 ELSE 0
                /\ AssetsOf(m.voxelTextures) \cap MissingAssets = {}
                /\ SubSeq(m.voxelTextures, 1, Len(voxelTextures)) = voxelTextures
                /\ OnePerAsset(m.voxelTextures)

\* A chunk with a missing asset was loaded and the renderer refused one of its
\* textures: the texture cache lacks exactly that one of the chunk's existing
\* assets.
C17_Witness ==
    /\ Ready /\ gpu.failures > 0
    /\ \E i \in 1..Len(renderChunks) :
           LET assets == ChunkTextureAssets(Chunks[renderChunks[i].srcChunk])
           IN  /\ assets \cap MissingAssets # {}
               /\ Cardinality((assets \ MissingAssets) \ CachedAssets) = 1
               /\ Cardinality(assets \cap CachedAssets) >= 2

\* ----------------------------------------------------------------------- C18
\* C18: LoadChasmDefTextures changes nothing when chasmTextureKeys already has
\* a key for (chunkPos, chasmDefID), not even when it would have to create
\* textures otherwise; in every reachable state chasmTextureKeys holds at most
\* one key per (chunkPos, chasmDefID).
C18_ChasmKeyedOnce ==
    /\ \A i, j \in 1..Len(chasmTextureKeys) :
           (/\ chasmTextureKeys[i].chunkPos = chasmTextureKeys[j].chunkPos
            /\ chasmTextureKeys[i].chasmDefID = chasmTextureKeys[j].chasmDefID) => i = j
    /\ Ready =>
           \A id \in ChunkIds : \A chasmDefID \in 0..(Len(Chunks[id].chasmDefs) - 1) :
               FindChasmTextureKey(chasmTextureKeys, Chunks[id].position, chasmDefID) # 0 =>
                   \A failAt \in 0..1 :
                       LoadChasmDefTextures(chasmDefID, Chunks[id], Working, failAt) = Working

\* The chunk at a position was replaced by one with another chasm definition
\* under the ID already keyed there, and the replacement was loaded: the key
\* and the floor texture list of the first load are still the only ones.
C18_Witness ==
    /\ Ready
    /\ \E i, j \in 1..Len(renderChunks) :
           /\ i < j
           /\ renderChunks[i].position = renderChunks[j].position
           /\ renderChunks[i].srcChunk # renderChunks[j].srcChunk
           /\ Len(Chunks[renderChunks[j].srcChunk].chasmDefs) > 0
    /\ Cardinality({k \in 1..Len(chasmTextureKeys) :
                       chasmTextureKeys[k].chunkPos = Pos0}) = 1

\* ----------------------------------------------------------------------- C19
\* s is an initial segment of t.
IsPrefix(s, t) == Len(s) <= Len(t) /\ SubSeq(t, 1, Len(s)) = s

CachesUnchanged ==
    UNCHANGED <<voxelTextures, chasmFloorTextureLists, chasmTextureKeys>>

\* C19: voxelTextures, chasmFloorTextureLists and chasmTextureKeys change only
\* in loadVoxelChunk, which appends to them and leaves the entries they have
\* in place, and in unloadScene and shutdown, which empty them;
\* rebuildVoxelChunkDrawCalls, unloadVoxelChunk and rebuildVoxelDrawCallsList
\* leave them unchanged. So the entries a chasm texture key indexes are the
\* same after every step that is not unloadScene or shutdown.
C19_CachesGrowOnly ==
    [][/\ \/ CachesUnchanged
          \/ /\ \E id \in ChunkIds : \E failAt \in 0..CreateCallsBound(Chunks[id]) :
                    loadVoxelChunk(id, failAt)
             /\ IsPrefix(voxelTextures, voxelTextures')
             /\ IsPrefix(chasmFloorTextureLists, chasmFloorTextureLists')
             /\ IsPrefix(chasmTextureKeys, chasmTextureKeys')
          \/ /\ unloadScene \/ shutdown
             /\ voxelTextures' = <<>> /\ chasmFloorTextureLists' = <<>>
             /\ chasmTextureKeys' = <<>>
       /\ (\/ \E id \in ChunkIds : \E ceilingScale \in CeilingScales :
                \E chasmAnimPercent \in AnimPercents :
                \E updateStatics, updateAnimating \in BOOLEAN :
                    rebuildVoxelChunkDrawCalls(id, ceilingScale, chasmAnimPercent,
                                               updateStatics, updateAnimating)
           \/ \E chunkPos \in Positions : unloadVoxelChunk(chunkPos)
           \/ rebuildVoxelDrawCallsList) => CachesUnchanged]_vars

\* Two loads have appended to the caches and a rebuild has used them: the keys
\* of the first load index the entries they indexed when they were appended.
C19_Witness ==
    /\ Ready
    /\ Len(renderChunks) >= 2
    /\ Len(chasmTextureKeys) >= 3
    /\ \E i \in 1..Len(renderChunks) : Len(renderChunks[i].chasmDrawCalls) > 0
    /\ \A k \in 1..Len(chasmTextureKeys) :
           /\ chasmTextureKeys[k].chasmFloorListIndex < Len(chasmFloorTextureLists)
           /\ chasmTextureKeys[k].chasmWallIndex < Len(voxelTextures)

\* ----------------------------------------------------------------------- C20
\* clamp(floor(F * animPercent), 0, F - 1), animPercent in hundredths.
ClampedFloor(F, animPercent) == Max2(0, Min2((F * animPercent) \div 100, F - 1))

\* chasmAnimPercent values below 0, within [0, 1) and from 1 on, in hundredths.
FrameAnimPercents == {-250, -30, -1, 0, 49, 50, 99, 100, 175}

\* The animated lists behave as claimed for the percentages of FrameAnimPercents.
FramesInRangeAgree ==
    \A k \in 1..Len(chasmFloorTextureLists) :
        LET textureList == chasmFloorTextureLists[k]
            F == Len(textureList.objectTextureRefs)
        IN  F >= 1 =>
                /\ getTextureIndexOutOfRange(textureList) \subseteq 0..(F - 1)
                /\ \A p \in FrameAnimPercents :
                       getTextureIndex(textureList, p) =
                           IF textureList.animType = "SolidColor" THEN 0
                           ELSE ClampedFloor(F, p)

\* C20: for a floor texture list with F >= 1 textures, getTextureIndex yields
\* 0 for a SolidColor list and clamp(floor(F * animPercent), 0, F - 1) for an
\* Animated list, for every animPercent: below 0, in [0, 1), from 1 on, and so
\* large that F * animPercent exceeds every int, where the clamped floor is
\* F - 1.
C20_SelectsClampedFloor ==
    /\ FramesInRangeAgree
    /\ \A k \in 1..Len(chasmFloorTextureLists) :
           LET textureList == chasmFloorTextureLists[k]
               F == Len(textureList.objectTextureRefs)
           IN  F >= 1 =>
                   getTextureIndexOutOfRange(textureList) =
                       {IF textureList.animType = "SolidColor" THEN 0 ELSE F - 1}

\* ----------------------------------------------------------------------- C21
\* The largest frame count of the animated lists the frame selection is
\* examined on, besides the lists of the caches.
MaxFrames == 4

\* An Animated floor texture list with F frames.
AnimatedFrames(F) ==
    [animType |-> "Animated", paletteIndex |-> 0,
     textureAssets |-> [i \in 1..F |-> "F"], objectTextureRefs |-> [i \in 1..F |-> i]]

\* The Animated lists with at least one frame: those of the cache and one per
\* frame count up to MaxFrames.
AnimatedLists ==
    {chasmFloorTextureLists[k] : k \in {j \in 1..Len(chasmFloorTextureLists) :
         /\ chasmFloorTextureLists[j].animType = "Animated"
         /\ Len(chasmFloorTextureLists[j].objectTextureRefs) >= 1}}
        \cup {AnimatedFrames(F) : F \in 1..MaxFrames}

\* C21: for an Animated list with F frames the selected frame does not
\* decrease when chasmAnimPercent grows, is 0 at chasmAnimPercent = 0 and is
\* F - 1 for every chasmAnimPercent in [(F - 1) / F, 1).
C21_FrameMonotonic ==
    \A textureList \in AnimatedLists :
        LET F == Len(textureList.objectTextureRefs)
        IN  /\ \A p \in (-20)..119 :
                   getTextureIndex(textureList, p) <= getTextureIndex(textureList, p + 1)
            /\ getTextureIndex(textureList, 0) = 0
            /\ \A p \in 0..99 :
                   F * p >= 100 * (F - 1) => getTextureIndex(textureList, p) = F - 1

\* A rebuild drew a wet chasm with the second frame of a two-frame list.
C21_Witness ==
    /\ Ready
    /\ \E k \in 1..Len(chasmFloorTextureLists) : \E i \in 1..Len(renderChunks) :
           /\ chasmFloorTextureLists[k].animType = "Animated"
           /\ Len(chasmFloorTextureLists[k].objectTextureRefs) = 2
           /\ \E n \in 1..Len(renderChunks[i].chasmDrawCalls) :
                  renderChunks[i].chasmDrawCalls[n].textureID0 =
                      chasmFloorTextureLists[k].objectTextureRefs[2]

\* ----------------------------------------------------------------------- C22
\* The position of ChunkE in Chunks.
ChunkEId == CHOOSE id \in ChunkIds : Chunks[id] = ChunkE

\* The lists a load of ChunkE and a rebuild with both flags leave, from a state
\* in which the chunk's position has neither a render chunk nor a chasm
\* texture key and with every creation succeeding.
WallAndDryChasmLists(rc, textures, texels) ==
    LET wall == rc.meshDefs[rc.meshDefMappings[1] + 1]
    IN  /\ Len(rc.staticDrawCalls) = 3
        /\ \A b \in 1..3 :
               /\ rc.staticDrawCalls[b].indexBufferID = wall.opaqueIndexBufferIDs[b]
               /\ rc.staticDrawCalls[b].indexBufferID >= 0
               /\ rc.staticDrawCalls[b].vertexBufferID = wall.vertexBufferID
               /\ rc.staticDrawCalls[b].textureID0 =
                      textures[FindVoxelTexture(textures, ChunkE.textureDefs[1][b])].id
        /\ Len(rc.chasmDrawCalls) = 1
        /\ <<rc.chasmDrawCalls[1].textureID0, ChunkE.chasmDefs[1].paletteIndex>> \in texels
        /\ \A t \in texels : t[1] = rc.chasmDrawCalls[1].textureID0
                                 => t[2] = ChunkE.chasmDefs[1].paletteIndex
        /\ rc.doorDrawCalls = <<>>
        /\ rc.fadingDrawCalls = <<>>

\* C22: loading a chunk with one Wall voxel and one dry chasm voxel without
\* wall faces and rebuilding its draw calls with both flags leaves three static
\* draw calls, one per opaque index buffer of the wall, one chasm draw call
\* whose first texture is the texture whose texel is the chasm's palette index,
\* and empty door and fading lists.
C22_WallAndDryChasm ==
    (/\ Ready
     /\ ChunksAt(renderChunks, ChunkE.position) = {}
     /\ \A k \in 1..Len(chasmTextureKeys) : chasmTextureKeys[k].chunkPos # ChunkE.position) =>
        \A ceilingScale \in CeilingScales : \A chasmAnimPercent \in AnimPercents :
            LET l == LoadedChunk(ChunkEId, Working, chasmWallIndexBufferIDs, 0)
                r == RebuiltChunk(l.rc, l.m, ChunkE, ceilingScale, chasmAnimPercent,
                                  TRUE, TRUE)
            IN  /\ ~l.m.crashed /\ ~r.crashed
                /\ WallAndDryChasmLists(r.rc, l.m.voxelTextures, l.m.gpu.texels)

\* ChunkE was loaded and rebuilt and its render chunk has the claimed lists.
C22_Witness ==
    /\ Ready
    /\ \E i \in 1..Len(renderChunks) :
           /\ renderChunks[i].srcChunk = ChunkEId
           /\ WallAndDryChasmLists(renderChunks[i], voxelTextures, gpu.texels)

\* ----------------------------------------------------------------------- C23
\* The four adjacency flags of the face combination baseIndex: north, east,
\* south, west.
FaceFlags(baseIndex) == [face \in 1..4 |-> HasChasmWallFace(baseIndex, face)]

\* The number of faces of a combination.
FacesPresent(baseIndex) == Cardinality({face \in 1..4 : FaceFlags(baseIndex)[face]})

\* The indices of the index buffer id, if the renderer has any for it.
IndicesOf(id) == {e[2] : e \in {x \in gpu.indices : x[1] = id}}

\* The faces the indices at positions 6n+1 .. 6n+6 of a buffer belong to.
FaceOrder(indices) == [n \in 1..(Len(indices) \div IndicesPerFace) |-> indices[IndicesPerFace * n][1]]

\* C23: after an init in which every creation succeeded, each of the 15
\* non-zero combinations of the north, east, south and west bits has, at the
\* slot GetChasmWallIndex returns for it, a live index buffer of its own that
\* holds facesPresent x 6 indices: the six-index patterns of its faces in the
\* order north, east, south, west. The all-zero combination has no slot.
C23_TableHoldsFacePatterns ==
    (phase = "ready" /\ \A i \in TableSlots : chasmWallIndexBufferIDs[i] >= 0) =>
        /\ \A baseIndex \in 1..15 :
               LET id == chasmWallIndexBufferIDs[GetChasmWallIndex(baseIndex) + 1]
               IN  /\ Cardinality(IndicesOf(id)) = 1
                   /\ \A indices \in IndicesOf(id) :
                          /\ Len(indices) = FacesPresent(baseIndex) * 6
                          /\ \A n \in 1..Len(indices) :
                                 indices[n] = ChasmWallFaceIndices(indices[n][1])[((n - 1) % 6) + 1]
                          /\ \A n \in 1..(Len(FaceOrder(indices)) - 1) :
                                 FaceOrder(indices)[n] < FaceOrder(indices)[n + 1]
                          /\ Range(FaceOrder(indices)) = {face \in 1..4 : FaceFlags(baseIndex)[face]}
        /\ \A i, j \in TableSlots : i # j => chasmWallIndexBufferIDs[i] # chasmWallIndexBufferIDs[j]
        /\ (GetChasmWallIndex(0) + 1) \notin TableSlots

\* init succeeded and a chunk whose chasm has the north and east faces was
\* loaded: its voxel is mapped to the buffer with those two patterns.
C23_Witness ==
    /\ Ready /\ \A i \in TableSlots : chasmWallIndexBufferIDs[i] >= 0
    /\ \E i \in 1..Len(renderChunks) : \E k \in DOMAIN renderChunks[i].chasmWallIndexBufferIDs :
           IndicesOf(renderChunks[i].chasmWallIndexBufferIDs[k]) =
               {ChasmWallFaceIndices(1) \o ChasmWallFaceIndices(2)}

\* ----------------------------------------------------------------------- C24
\* The shape-to-geometry table: renderer vertices, triangles of each opaque
\* group, triangles of the alpha-tested group (0: no such group), back faces
\* visible, context sensitive.
ShapeRow(vertices, opaque, alpha, backFaces, contextSensitive) ==
    [vertices |-> vertices, opaque |-> opaque, alpha |-> alpha,
     backFaces |-> backFaces, contextSensitive |-> contextSensitive]

ShapeTable(voxelType) ==
    CASE voxelType = "Wall" -> ShapeRow(24, <<8, 2, 2>>, 0, FALSE, FALSE)
      [] voxelType = "Raised" -> ShapeRow(24, <<4, 4>>, 12, FALSE, FALSE)
      [] voxelType = "TransparentWall" -> ShapeRow(16, <<>>, 8, FALSE, FALSE)
      [] voxelType = "Door" -> ShapeRow(16, <<>>, 8, FALSE, FALSE)
      [] voxelType = "Chasm" -> ShapeRow(20, <<2>>, 0, TRUE, TRUE)
      [] voxelType = "Floor" -> ShapeRow(4, <<2>>, 0, FALSE, FALSE)
      [] voxelType = "Ceiling" -> ShapeRow(4, <<2>>, 0, FALSE, FALSE)
      [] voxelType = "Diagonal" -> ShapeRow(4, <<2>>, 0, TRUE, FALSE)
      [] voxelType = "Edge" -> ShapeRow(4, <<>>, 2, TRUE, FALSE)

\* The voxels of the render chunks whose mesh definition is mapped:
\* <<render chunk, voxel>>.
BuiltVoxels ==
    UNION {{<<i, k>> : k \in {j \in 1..Len(Chunks[renderChunks[i].srcChunk].voxels) :
                                  Chunks[renderChunks[i].srcChunk].voxels[j].meshDefID
                                      \in DOMAIN renderChunks[i].meshDefMappings}} :
           i \in 1..Len(renderChunks)}

\* C24: for every voxel type but None the mesh utilities return the values of
\* the shape-to-geometry table; a shape whose buffers were all created has one
\* opaque index buffer per opaque group of its voxel type and an alpha-tested
\* index buffer exactly when the type has an alpha-tested group.
C24_ShapeTable ==
    /\ \A voxelType \in VoxelTypes \ {"None"} :
           LET row == ShapeTable(voxelType)
           IN  /\ GetRendererVertexCount(voxelType) = row.vertices
               /\ GetOpaqueIndexBufferCount(voxelType) = Len(row.opaque)
               /\ \A b \in 1..Len(row.opaque) :
                      GetOpaqueIndexCount(voxelType, b - 1) = row.opaque[b] * 3
               /\ GetAlphaTestedIndexBufferCount(voxelType) = IF row.alpha > 0 THEN 1 ELSE 0
               /\ row.alpha > 0 => GetAlphaTestedIndexCount(voxelType, 0) = row.alpha * 3
               /\ AllowsBackFacingGeometry(voxelType) = row.backFaces
               /\ HasContextSensitiveGeometry(voxelType) = row.contextSensitive
    /\ \A e \in BuiltVoxels :
           LET rc == renderChunks[e[1]]
               v == Chunks[rc.srcChunk].voxels[e[2]]
               def == rc.meshDefs[rc.meshDefMappings[v.meshDefID] + 1]
           IN  CompleteMeshDef(def, Chunks[rc.srcChunk].meshDefs[v.meshDefID + 1]) =>
                   /\ def.opaqueIndexBufferIdCount = Len(ShapeTable(v.type).opaque)
                   /\ (def.alphaTestedIndexBufferID >= 0) = (ShapeTable(v.type).alpha > 0)

\* Chunks with a wall, a chasm, a door, an edge and a raised platform are
\* loaded with all their buffers.
C24_Witness ==
    /\ Ready
    /\ \A voxelType \in {"Wall", "Chasm", "Door", "Edge", "Raised"} :
           \E e \in BuiltVoxels :
               LET rc == renderChunks[e[1]]
                   v == Chunks[rc.srcChunk].voxels[e[2]]
               IN  /\ v.type = voxelType
                   /\ CompleteMeshDef(rc.meshDefs[rc.meshDefMappings[v.meshDefID] + 1],
                                      Chunks[rc.srcChunk].meshDefs[v.meshDefID + 1])

\* ----------------------------------------------------------------------- C25
\* Door open percents in hundredths, both ends of [0,1] included.
OpenPercents == {0, 1, 25, 50, 99, 100}

\* chunk with every door animation instance at percentOpen.
WithDoorPercent(chunk, percentOpen) ==
    [chunk EXCEPT !.voxels =
        [k \in 1..Len(chunk.voxels) |->
            IF chunk.voxels[k].doorDefID >= 0
            THEN [chunk.voxels[k] EXCEPT !.doorAnimPercent = percentOpen]
            ELSE chunk.voxels[k]]]

\* The door draw calls with the given vertex shader that a rebuild of the
\* animating voxels of the i-th render chunk appends when the doors of its
\* chunk are at percentOpen.
DoorDrawCallsAt(i, percentOpen, vertexShader) ==
    LET rc == renderChunks[i]
        r == RebuiltChunk(rc, Caches, WithDoorPercent(Chunks[rc.srcChunk], percentOpen),
                          100, 60, FALSE, TRUE)
    IN  IF r.crashed THEN {}
        ELSE {dc \in Range(r.rc.doorDrawCalls) : dc.vertexShaderType = vertexShader}

\* C25: the rotation of a swinging door's draw call is the y rotation by the
\* face's base angle plus -(pi/2 - epsilon) x openPercent; the added amount is
\* 0 at openPercent 0, smaller for a larger openPercent, and its magnitude is
\* strictly below pi/2 for every openPercent in [0,1].
C25_SwingingRotation ==
    Ready =>
        \A i \in HeldChunks :
            \A p \in OpenPercents :
                LET calls == DoorDrawCallsAt(i, p, "SwingingDoor")
                IN  /\ \A dc \in calls :
                           /\ dc.rotation.axis = "y"
                           /\ dc.rotation.baseFace = dc.position[3]
                           /\ dc.rotation.amount = -((HalfPi - Epsilon) * p)
                           /\ (p = 0) => dc.rotation.amount = 0
                           /\ dc.rotation.amount <= 0
                           /\ -dc.rotation.amount < HalfPi * 100
                           /\ dc.preScaleTranslation = <<0, 0, 0>>
                           /\ dc.scale = <<One, One, One>>
                    /\ \A q \in OpenPercents :
                           p < q =>
                               \A a \in calls, b \in DoorDrawCallsAt(i, q, "SwingingDoor") :
                                   b.rotation.amount < a.rotation.amount

\* A half-open swinging door has been drawn, and the same door fully open
\* would be drawn too.
C25_Witness ==
    /\ Ready
    /\ \E i \in HeldChunks :
           /\ \E k \in 1..Len(renderChunks[i].doorDrawCalls) :
                  LET dc == renderChunks[i].doorDrawCalls[k]
                  IN  /\ dc.vertexShaderType = "SwingingDoor"
                      /\ dc.rotation.amount = -((HalfPi - Epsilon) * 50)
           /\ DoorDrawCallsAt(i, 100, "SwingingDoor") # {}

\* ----------------------------------------------------------------------- C26
\* What the claim says of one sliding or raising door draw call at openPercent
\* p: axis is the place of the scaled axis in the scale (2 = Y, 3 = Z).
MinAndScaleAt(dc, axis, p) ==
    LET min == (100 - DOOR_MIN_VISIBLE) * p
    IN  /\ dc.pixelShaderParam0 = <<"min", min>>
        /\ dc.scale[axis] = One - min
        /\ \A other \in {1, 2, 3} \ {axis} : dc.scale[other] = One
        /\ (p = 0) => dc.scale[axis] = One
        /\ (p = 100) => dc.scale[axis] = DOOR_MIN_VISIBLE * 100
        /\ dc.scale[axis] >= DOOR_MIN_VISIBLE * 100
        /\ dc.scale[axis] <= One
        /\ dc.rotation = [axis |-> "y", baseFace |-> dc.position[3], amount |-> 0]

\* C26: a sliding or raising door's draw call passes (1 - MIN_VISIBLE) x
\* openPercent as the scalar shader parameter and scales by 1 minus that value,
\* on Z for a sliding and on Y for a raising door; the scale is 1 at
\* openPercent 0, MIN_VISIBLE at openPercent 1 and within [MIN_VISIBLE, 1]
\* in between.
C26_SlidingRaisingScale ==
    Ready =>
        \A i \in HeldChunks :
            \A p \in OpenPercents :
                /\ \A dc \in DoorDrawCallsAt(i, p, "SlidingDoor") :
                       /\ MinAndScaleAt(dc, 3, p)
                       /\ dc.pixelShaderType = "AlphaTestedWithVariableTexCoordUMin"
                /\ \A dc \in DoorDrawCallsAt(i, p, "RaisingDoor") :
                       /\ MinAndScaleAt(dc, 2, p)
                       /\ dc.pixelShaderType = "AlphaTestedWithVariableTexCoordVMin"

\* A fully open raising door and a fully open sliding door have been drawn; the
\* same doors closed would be drawn too.
C26_Witness ==
    /\ Ready
    /\ \E i \in HeldChunks :
           /\ \E j, k \in 1..Len(renderChunks[i].doorDrawCalls) :
                  LET raising == renderChunks[i].doorDrawCalls[j]
                      sliding == renderChunks[i].doorDrawCalls[k]
                  IN  /\ raising.vertexShaderType = "RaisingDoor"
                      /\ raising.scale[2] = DOOR_MIN_VISIBLE * 100
                      /\ sliding.vertexShaderType = "SlidingDoor"
                      /\ sliding.scale[3] = DOOR_MIN_VISIBLE * 100
           /\ DoorDrawCallsAt(i, 0, "SlidingDoor") # {}
           /\ DoorDrawCallsAt(i, 0, "RaisingDoor") # {}

\* ----------------------------------------------------------------------- C27
DrawCallLists == {"staticDrawCalls", "doorDrawCalls", "chasmDrawCalls", "fadingDrawCalls"}

\* The places in a list of lists of the draw calls of the k-th voxel.
VoxelCallsIn(lists, list, k) == {n \in 1..Len(lists[list]) : lists[list][n].position[2] = k}

\* The draw calls a rebuild appends to each list of rc: what the list holds
\* after the rebuild behind what the clearing left of it.
AppendedCalls(rc, chunk, updateStatics, updateAnimating) ==
    LET cleared == ClearRequestedLists(rc, updateStatics, updateAnimating)
        r == RebuiltChunk(rc, Caches, chunk, 100, 60, updateStatics, updateAnimating)
    IN  [list \in DrawCallLists |->
            SubSeq(r.rc[list], Len(cleared[list]) + 1, Len(r.rc[list]))]

\* chunk with the k-th voxel replaced by air (the empty mesh definition 0).
WithoutVoxel(chunk, k) ==
    [chunk EXCEPT !.voxels[k] = PlainVoxel(0, 0, "None")]

\* The door voxels of the i-th render chunk's chunk whose shape is loaded.
LoadedDoors(i) ==
    LET rc == renderChunks[i]
        chunk == Chunks[rc.srcChunk]
    IN  {k \in 1..Len(chunk.voxels) :
            /\ chunk.voxels[k].doorDefID >= 0
            /\ chunk.voxels[k].meshDefID \in DOMAIN rc.meshDefMappings
            /\ rc.meshDefs[rc.meshDefMappings[chunk.voxels[k].meshDefID] + 1]
                   .alphaTestedIndexBufferID >= 0}

\* C27: a rebuild that includes the animating voxels gives a swinging, sliding
\* or raising door with a loaded texture and a door visibility instance one
\* draw call per visible face, at most 2, all in the door list; a door without
\* door visibility instance gets none, and the rebuild does for the rest of the
\* chunk what it does without that door.
C27_DoorDrawCallPerVisibleFace ==
    Ready =>
        \A i \in HeldChunks :
            \A updateStatics \in BOOLEAN :
                LET rc == renderChunks[i]
                    chunk == Chunks[rc.srcChunk]
                    r == RebuiltChunk(rc, Caches, chunk, 100, 60, updateStatics, TRUE)
                    appended == AppendedCalls(rc, chunk, updateStatics, TRUE)
                IN  \A k \in LoadedDoors(i) :
                        LET v == chunk.voxels[k]
                            faces == Range(v.doorVisibleFaces)
                            calls == VoxelCallsIn(appended, "doorDrawCalls", k)
                        IN  /\ ( /\ ~r.crashed
                                 /\ chunk.doorDefs[v.doorDefID + 1] \in {"Swinging", "Sliding", "Raising"}
                                 /\ VoxelTextureID(Caches, chunk.textureDefs[v.textureDefID + 1][1]) >= 0
                                 /\ v.hasDoorVisInst )
                               => /\ Cardinality(calls) = Cardinality(faces)
                                  /\ Cardinality(calls) <= 2
                                  /\ {appended.doorDrawCalls[n].position[3] : n \in calls} = faces
                                  /\ \A list \in DrawCallLists \ {"doorDrawCalls"} :
                                         VoxelCallsIn(appended, list, k) = {}
                            /\ ~v.hasDoorVisInst
                               => /\ ~r.crashed =>
                                         \A list \in DrawCallLists : VoxelCallsIn(appended, list, k) = {}
                                  /\ r = RebuiltChunk(rc, Caches, WithoutVoxel(chunk, k), 100, 60,
                                                      updateStatics, TRUE)

\* A raising door with two visible faces has its two draw calls in the door
\* list, and the wall behind a door without door visibility instance has been
\* drawn.
C27_Witness ==
    /\ Ready
    /\ \E i \in HeldChunks :
           LET rc == renderChunks[i]
               chunk == Chunks[rc.srcChunk]
           IN  \E k, n \in LoadedDoors(i) :
                   /\ chunk.voxels[k].hasDoorVisInst
                   /\ Cardinality(VoxelCallsIn(rc, "doorDrawCalls", k)) = 2
                   /\ ~chunk.voxels[n].hasDoorVisInst
                   /\ VoxelCallsIn(rc, "doorDrawCalls", n) = {}
                   /\ \E w \in (n + 1)..Len(chunk.voxels) :
                          VoxelCallsIn(rc, "staticDrawCalls", w) # {}

\* ----------------------------------------------------------------------- C28
RebuildFlags == {f \in BOOLEAN \X BOOLEAN : f[1] \/ f[2]}

\* The splitting doors of the i-th render chunk's chunk that reach the door
\* type switch: the shape and the texture are loaded and the door has a door
\* visibility instance.
SplittingDoors(i) ==
    LET chunk == Chunks[renderChunks[i].srcChunk]
    IN  {k \in LoadedDoors(i) :
            /\ chunk.doorDefs[chunk.voxels[k].doorDefID + 1] = "Splitting"
            /\ chunk.voxels[k].hasDoorVisInst
            /\ VoxelTextureID(Caches, chunk.textureDefs[chunk.voxels[k].textureDefID + 1][1]) >= 0}

\* C28: draw call generation for a splitting door raises the not-implemented
\* signal and appends no draw call for the door: its alpha-tested part ends
\* with that signal and the lists as they were, and the rebuild it is part of
\* is fatal and has appended nothing for the door.
C28_SplittingNotImplemented ==
    Ready =>
        \A i \in HeldChunks :
            \A f \in RebuildFlags :
                LET rc == renderChunks[i]
                    chunk == Chunks[rc.srcChunk]
                    cleared == ClearRequestedLists(rc, f[1], f[2])
                IN  \A k \in SplittingDoors(i) :
                        LET renderMeshDef ==
                                rc.meshDefs[rc.meshDefMappings[chunk.voxels[k].meshDefID] + 1]
                            a == AlphaTestedDrawCalls([rc |-> cleared, crashed |-> FALSE], Caches,
                                                      chunk, k, renderMeshDef, 100, f[1], f[2])
                        IN  /\ a.signal = "notImplemented"
                            /\ a.crashed
                            /\ a.rc = cleared
                            /\ RebuiltChunk(rc, Caches, chunk, 100, 60, f[1], f[2]).crashed
                            /\ \A list \in DrawCallLists :
                                   VoxelCallsIn(AppendedCalls(rc, chunk, f[1], f[2]), list, k) = {}

ChunkGId == CHOOSE id \in ChunkIds : Chunks[id] = ChunkG

\* The rebuild of the chunk with the splitting door, loaded without a refusal
\* of the renderer, has taken the fatal path.
C28_Witness ==
    /\ phase = "ready"
    /\ crashed
    /\ gpu.failures = 0
    /\ Len(renderChunks) = 1
    /\ renderChunks[1].srcChunk = ChunkGId
    /\ world[renderChunks[1].position] = ChunkGId
    /\ SplittingDoors(1) # {}
    /\ renderChunks[1].doorDrawCalls = <<>>

\* ----------------------------------------------------------------------- C29
\* chunk with a fade animation instance at percentFaded on its k-th voxel;
\* the chunk itself for k = 0.
WithFadeAt(chunk, k, percentFaded) ==
    IF k = 0 THEN chunk
    ELSE [chunk EXCEPT !.voxels[k].fadePercent = percentFaded]

\* The opaque index buffers of the k-th voxel's shape in rc.
OpaqueBuffersOf(rc, chunk, k) ==
    LET meshDefID == chunk.voxels[k].meshDefID
        def == rc.meshDefs[rc.meshDefMappings[meshDefID] + 1]
    IN  IF meshDefID \notin DOMAIN rc.meshDefMappings THEN {}
        ELSE {def.opaqueIndexBufferIDs[b] : b \in 1..def.opaqueIndexBufferIdCount} \ {-1}

\* <<list, n>> for each appended draw call of the k-th voxel's opaque index
\* buffer id.
OpaqueCallsOf(appended, k, id) ==
    {e \in UNION {{<<list, n>> : n \in VoxelCallsIn(appended, list, k)} : list \in DrawCallLists} :
        appended[e[1]][e[2]].indexBufferID = id}

\* C29: each opaque draw call of a voxel is appended to one list, the chasm
\* list for a chasm, else the fading list for a voxel with a fade instance,
\* else the static list; with a fade instance it has the opaque-with-fade
\* pixel shader and the fade percent as parameter, else the opaque shader and
\* parameter 0; a chasm's has screen-space repeat-Y sampling, any other's the
\* default sampling.
C29_OpaqueRouting ==
    Ready =>
        \A i \in HeldChunks :
            \A f \in RebuildFlags :
                LET rc == renderChunks[i]
                IN  \A fading \in 0..Len(Chunks[rc.srcChunk].voxels) :
                        LET chunk == WithFadeAt(Chunks[rc.srcChunk], fading, 30)
                            appended == AppendedCalls(rc, chunk, f[1], f[2])
                        IN  \A k \in 1..Len(chunk.voxels) :
                                \A id \in OpaqueBuffersOf(rc, chunk, k) :
                                    LET v == chunk.voxels[k]
                                        calls == OpaqueCallsOf(appended, k, id)
                                    IN  /\ Cardinality(calls) <= 1
                                        /\ \A e \in calls :
                                               LET dc == appended[e[1]][e[2]]
                                               IN  /\ e[1] = (IF v.chasmDefID >= 0 THEN "chasmDrawCalls"
                                                              ELSE IF v.fadePercent >= 0 THEN "fadingDrawCalls"
                                                              ELSE "staticDrawCalls")
                                                   /\ dc.vertexShaderType = "Voxel"
                                                   /\ IF v.fadePercent >= 0
                                                      THEN /\ dc.pixelShaderType = "OpaqueWithFade"
                                                           /\ dc.pixelShaderParam0 = <<"fade", v.fadePercent>>
                                                      ELSE /\ dc.pixelShaderType = "Opaque"
                                                           /\ dc.pixelShaderParam0 = <<"zero", 0>>
                                                   /\ dc.textureSamplingType =
                                                          (IF v.chasmDefID >= 0 THEN "ScreenSpaceRepeatY"
                                                           ELSE "Default")

\* The opaque draw calls a render chunk holds of one voxel.
HeldOpaqueCalls(i, list, k) ==
    LET rc == renderChunks[i]
    IN  {n \in VoxelCallsIn(rc, list, k) :
            rc[list][n].indexBufferID \in OpaqueBuffersOf(rc, Chunks[rc.srcChunk], k)}

\* The i-th render chunk holds, in the given list, an opaque draw call of a
\* voxel of which the flags say whether it is a chasm and whether it fades.
HoldsOpaqueCall(i, list, isChasm, isFading) ==
    LET chunk == Chunks[renderChunks[i].srcChunk]
    IN  \E k \in 1..Len(chunk.voxels) :
            /\ (chunk.voxels[k].chasmDefID >= 0) = isChasm
            /\ (chunk.voxels[k].fadePercent >= 0) = isFading
            /\ HeldOpaqueCalls(i, list, k) # {}

\* The render chunks hold an opaque draw call of a chasm in a chasm list, of a
\* fading voxel in a fading list and of a voxel that is neither in a static
\* list.
C29_Witness ==
    /\ Ready
    /\ \E i \in HeldChunks : HoldsOpaqueCall(i, "chasmDrawCalls", TRUE, FALSE)
    /\ \E i \in HeldChunks : HoldsOpaqueCall(i, "fadingDrawCalls", FALSE, TRUE)
    /\ \E i \in HeldChunks : HoldsOpaqueCall(i, "staticDrawCalls", FALSE, FALSE)

\* ----------------------------------------------------------------------- C30
\* The caches with the pos-th voxel texture filed under an asset no texture
\* definition names: lookups by asset no longer find it, the positions of the
\* other entries (which the chasm texture keys refer to) stay.
WithoutTexture(c, pos) == [c EXCEPT !.voxelTextures[pos].textureAsset = "absent"]

\* A rebuild resolved against the caches c: whether it took the fatal path,
\* and the draw calls it appended to each list.
RebuildWith(rc, c, chunk, updateStatics, updateAnimating) ==
    LET cleared == ClearRequestedLists(rc, updateStatics, updateAnimating)
        r == RebuiltChunk(rc, c, chunk, 100, 60, updateStatics, updateAnimating)
    IN  [crashed |-> r.crashed,
         lists |-> [list \in DrawCallLists |->
                       SubSeq(r.rc[list], Len(cleared[list]) + 1, Len(r.rc[list]))]]

\* The draw calls of calls that do not draw the texture id as the texture of a
\* non-chasm voxel's index group.
OtherCalls(calls, chunk, id) ==
    SelectSeq(calls, LAMBDA dc :
        ~(dc.textureID0 = id /\ chunk.voxels[dc.position[2]].chasmDefID < 0))

\* C30: a rebuild in which the texture of an index group of a non-chasm voxel
\* is not in the texture cache omits the draw calls of that group and no
\* other: every list gets, in the same order, the draw calls it gets with the
\* texture cached except those of the groups with that texture, and the
\* rebuild returns normally where it does with the texture cached.
C30_MissingTextureOmitsOneCall ==
    Ready =>
        \A i \in HeldChunks :
            \A f \in RebuildFlags :
                LET rc == renderChunks[i]
                    chunk == Chunks[rc.srcChunk]
                    with == RebuildWith(rc, Caches, chunk, f[1], f[2])
                IN  ~with.crashed =>
                        \A pos \in 1..Len(voxelTextures) :
                            LET missing == RebuildWith(rc, WithoutTexture(Caches, pos), chunk,
                                                       f[1], f[2])
                            IN  /\ ~missing.crashed
                                /\ \A list \in DrawCallLists :
                                       missing.lists[list]
                                           = OtherCalls(with.lists[list], chunk, voxelTextures[pos].id)

\* The opaque index buffers of the k-th voxel of the i-th render chunk's chunk
\* that a draw call of the render chunk's static list draws.
DrawnOpaqueBuffers(i, k) ==
    LET rc == renderChunks[i]
    IN  {b \in 1..3 :
            \E n \in VoxelCallsIn(rc, "staticDrawCalls", k) :
                LET def == rc.meshDefs[rc.meshDefMappings[Chunks[rc.srcChunk].voxels[k].meshDefID] + 1]
                IN  /\ b <= def.opaqueIndexBufferIdCount
                    /\ rc.staticDrawCalls[n].indexBufferID = def.opaqueIndexBufferIDs[b]}

\* A wall whose second texture is in no cache has been drawn with its first
\* and third index group only, a door behind it in the chunk has been drawn
\* too, and dropping a cached texture would omit a draw call of the chunk.
C30_Witness ==
    /\ Ready
    /\ \E i \in HeldChunks :
           LET rc == renderChunks[i]
               chunk == Chunks[rc.srcChunk]
           IN  /\ \E k \in 1..Len(chunk.voxels) :
                      /\ chunk.voxels[k].type = "Wall"
                      /\ chunk.textureDefs[chunk.voxels[k].textureDefID + 1][2] \in MissingAssets
                      /\ DrawnOpaqueBuffers(i, k) = {1, 3}
                      /\ \E d \in (k + 1)..Len(chunk.voxels) :
                             VoxelCallsIn(rc, "doorDrawCalls", d) # {}
               /\ \E pos \in 1..Len(voxelTextures) :
                      /\ ~RebuildWith(rc, Caches, chunk, TRUE, TRUE).crashed
                      /\ RebuildWith(rc, WithoutTexture(Caches, pos), chunk, TRUE, TRUE)
                             # RebuildWith(rc, Caches, chunk, TRUE, TRUE)

\* ----------------------------------------------------------------------- C31
AllFlags == BOOLEAN \X BOOLEAN

\* The places in the appended chasm list of the wall draw calls of the k-th voxel.
WallCallsOf(appended, k) ==
    {n \in VoxelCallsIn(appended, "chasmDrawCalls", k) :
        appended.chasmDrawCalls[n].pixelShaderType = "OpaqueWithAlphaTestLayer"}

\* C31: a rebuild that returns appends for a chasm voxel with a chasm wall
\* instance exactly one wall draw call, to the chasm list, with the floor
\* texture first and the wall texture second, screen-space repeat-Y sampling
\* and the opaque-with-alpha-test-layer shader, when the chasm is dry and
\* updateStatics is set or it is not dry and updateAnimating is set, and none
\* otherwise; a chasm voxel without chasm wall instance gets none.
C31_ChasmWallDrawCall ==
    Ready =>
        \A i \in HeldChunks :
            \A f \in AllFlags :
                LET rc == renderChunks[i]
                    chunk == Chunks[rc.srcChunk]
                    r == RebuildWith(rc, Caches, chunk, f[1], f[2])
                IN  ~r.crashed =>
                        \A k \in 1..Len(chunk.voxels) :
                            LET v == chunk.voxels[k]
                                calls == WallCallsOf(r.lists, k)
                                enabled == IF v.chasmType = "Dry" THEN f[1] ELSE f[2]
                            IN  v.chasmDefID >= 0 =>
                                    /\ \A list \in DrawCallLists \ {"chasmDrawCalls"} :
                                           VoxelCallsIn(r.lists, list, k) = {}
                                    /\ Cardinality(calls) =
                                           (IF v.chasmWallFaces > 0 /\ enabled THEN 1 ELSE 0)
                                    /\ \A n \in calls :
                                           LET dc == r.lists.chasmDrawCalls[n]
                                           IN  /\ dc.indexBufferID =
                                                      chasmWallIndexBufferIDs[v.chasmWallFaces]
                                               /\ dc.textureID0 =
                                                      getChasmFloorTextureID(Caches, rc.position,
                                                                             v.chasmDefID, 60)
                                               /\ dc.textureID1 =
                                                      getChasmWallTextureID(Caches, rc.position,
                                                                            v.chasmDefID)
                                               /\ dc.textureID0 >= 0 /\ dc.textureID1 >= 0
                                               /\ dc.textureID0 # dc.textureID1
                                               /\ dc.textureSamplingType = "ScreenSpaceRepeatY"
                                               /\ dc.pixelShaderType = "OpaqueWithAlphaTestLayer"
                                               /\ dc.vertexShaderType = "Voxel"

\* A render chunk holds the wall draw call of a dry chasm and another that of
\* a chasm that is not dry, and a chasm without wall faces has none.
C31_Witness ==
    /\ Ready
    /\ \E i, j \in HeldChunks :
           LET dry == Chunks[renderChunks[i].srcChunk]
               wet == Chunks[renderChunks[j].srcChunk]
           IN  /\ \E k \in 1..Len(dry.voxels) :
                      /\ dry.voxels[k].chasmType = "Dry"
                      /\ WallCallsOf(renderChunks[i], k) # {}
               /\ \E k, n \in 1..Len(wet.voxels) :
                      /\ wet.voxels[k].chasmType = "Wet"
                      /\ WallCallsOf(renderChunks[j], k) # {}
                      /\ wet.voxels[n].chasmDefID >= 0
                      /\ wet.voxels[n].chasmWallFaces = 0
                      /\ VoxelCallsIn(renderChunks[j], "chasmDrawCalls", n) # {}
                      /\ WallCallsOf(renderChunks[j], n) = {}

\* ----------------------------------------------------------------------- C32
\* C32: the pre-scale translation of every door draw call a rebuild appends
\* has X and Z components 0; its Y component is -ceilingScale for a raising
\* door and 0 for a swinging or sliding door.
C32_RaisingTranslationVertical ==
    Ready =>
        \A i \in HeldChunks :
            \A ceilingScale \in CeilingScales :
                LET rc == renderChunks[i]
                    r == RebuiltChunk(rc, Caches, Chunks[rc.srcChunk], ceilingScale, 60, FALSE, TRUE)
                IN  \A n \in 1..Len(r.rc.doorDrawCalls) :
                        LET dc == r.rc.doorDrawCalls[n]
                        IN  dc.preScaleTranslation =
                                <<0,
                                  IF dc.vertexShaderType = "RaisingDoor" THEN -ceilingScale ELSE 0,
                                  0>>

\* The swinging and sliding part of the claim alone, and the Y component of a
\* raising door's translation.
C32_OtherDoorsAndY ==
    Ready =>
        \A i \in HeldChunks :
            \A ceilingScale \in CeilingScales :
                LET rc == renderChunks[i]
                    r == RebuiltChunk(rc, Caches, Chunks[rc.srcChunk], ceilingScale, 60, FALSE, TRUE)
                IN  \A n \in 1..Len(r.rc.doorDrawCalls) :
                        LET dc == r.rc.doorDrawCalls[n]
                        IN  IF dc.vertexShaderType = "RaisingDoor"
                            THEN dc.preScaleTranslation[2] = -ceilingScale
                            ELSE dc.preScaleTranslation = <<0, 0, 0>>

\* ----------------------------------------------------------------------- C33
\* The four lists of a render chunk.
ListsOf(rc) == [list \in DrawCallLists |-> rc[list]]

\* A second rebuild with the flags f of the i-th render chunk leaves the lists
\* the first one left.
RebuildIdempotent(i, f) ==
    LET rc == renderChunks[i]
        chunk == Chunks[rc.srcChunk]
        once == RebuiltChunk(rc, Caches, chunk, 100, 60, f[1], f[2])
        twice == RebuiltChunk(once.rc, Caches, chunk, 100, 60, f[1], f[2])
    IN  ~once.crashed => (~twice.crashed /\ ListsOf(twice.rc) = ListsOf(once.rc))

\* C33: rebuilding twice with the same flags leaves the four lists as
\* rebuilding once does, for every flag combination, and no list of a render
\* chunk holds two draw calls for the same voxel, index group and door face.
C33_RebuildIdempotent ==
    Ready =>
        \A i \in HeldChunks :
            /\ \A f \in AllFlags : RebuildIdempotent(i, f)
            /\ \A list \in DrawCallLists :
                   LET calls == renderChunks[i][list]
                   IN  Cardinality(Range(calls)) = Len(calls)

\* The flag combinations under which the claim's first part holds: every one
\* but updateStatics without updateAnimating.
C33_IdempotentUnlessStaticsOnly ==
    Ready =>
        \A i \in HeldChunks :
            \A f \in AllFlags \ {<<TRUE, FALSE>>} : RebuildIdempotent(i, f)

\* ----------------------------------------------------------------------- C34
\* The chasm texture key of (chunkPos, chasmDefID) is there and leads to a floor
\* texture list of chasmDef's animation type and content (its colour, or
\* frames of its texture assets) and to chasmDef's wall texture.
KeyMatchesChasmDef(chunkPos, chasmDefID, chasmDef) ==
    LET keyPos == FindChasmTextureKey(chasmTextureKeys, chunkPos, chasmDefID)
        key == chasmTextureKeys[keyPos]
        textureList == chasmFloorTextureLists[key.chasmFloorListIndex + 1]
    IN  /\ keyPos # 0
        /\ key.chasmFloorListIndex + 1 \in 1..Len(chasmFloorTextureLists)
        /\ key.chasmWallIndex + 1 \in 1..Len(voxelTextures)
        /\ textureList.animType = chasmDef.animType
        /\ IF chasmDef.animType = "SolidColor"
           THEN textureList.paletteIndex = chasmDef.paletteIndex
           ELSE Range(textureList.textureAssets) \subseteq Range(chasmDef.textureAssets)
        /\ voxelTextures[key.chasmWallIndex + 1].textureAsset = chasmDef.wallTextureAsset

\* No position has two render chunks.
OnePerPosition ==
    \A i \in 1..Len(renderChunks) : ChunksAt(renderChunks, renderChunks[i].position) = {i}

\* C34: as long as the renderer refuses nothing and no position is loaded
\* twice, the chasm texture key of every chasm definition of every chunk of
\* the active set leads to the floor texture list and the wall texture of that
\* definition, also after a chunk was unloaded and another one loaded at its
\* position.
C34_KeysMatchCurrentDefs ==
    (Ready /\ gpu.failures = 0 /\ OnePerPosition) =>
        \A i \in HeldChunks :
            LET chunk == Chunks[renderChunks[i].srcChunk]
            IN  \A d \in 1..Len(chunk.chasmDefs) :
                    KeyMatchesChasmDef(chunk.position, d - 1, chunk.chasmDefs[d])

\* ----------------------------------------------------------------------- C35
\* The vertex, attribute and index buffer handles of a draw call (-1, the
\* invalid handle, is none).
BufferHandlesOf(dc) ==
    {dc.vertexBufferID, dc.normalBufferID, dc.texCoordBufferID, dc.indexBufferID} \ {-1}

\* The live buffer handles the render chunks and the chasm wall index table hold.
OwnedBuffers ==
    (Range(RenderChunksHandlesFrom(1, renderChunks))
        \cup TableHandles(chasmWallIndexBufferIDs, gpu)) \cap gpu.live

\* C35 as stated: in every reachable state every buffer handle of every draw
\* call of the flat sequence is held by a render chunk or by the chasm wall
\* index table and has not been released.
C35_FlatListHandlesOwned ==
    Ready =>
        \A n \in 1..Len(drawCallsCache) : BufferHandlesOf(drawCallsCache[n]) \subseteq OwnedBuffers

\* C35, amended: whenever the flat sequence is the one rebuildVoxelDrawCallsList
\* makes of the present render chunks, every buffer handle of its draw calls is
\* held by a render chunk or by the chasm wall index table and has not been
\* released.
C35_CurrentFlatListHandlesOwned ==
    (Ready /\ drawCallsCache = FlattenFrom(1, renderChunks)) =>
        \A n \in 1..Len(drawCallsCache) : BufferHandlesOf(drawCallsCache[n]) \subseteq OwnedBuffers

\* The flat sequence was rebuilt from two render chunks and holds a draw call
\* with an index buffer of the table and one with an index buffer of a render
\* chunk.
C35_Witness ==
    /\ Ready
    /\ Len(renderChunks) = 2
    /\ drawCallsCache = FlattenFrom(1, renderChunks)
    /\ \E n, k \in 1..Len(drawCallsCache) :
           /\ drawCallsCache[n].indexBufferID \in TableHandles(chasmWallIndexBufferIDs, gpu)
           /\ drawCallsCache[k].indexBufferID \in Range(RenderChunksHandlesFrom(1, renderChunks))

\* ----------------------------------------------------------------------- C36
\* C36: no two render chunks of the active set have the same position, so
\* tryGetRenderChunkIndex of a position finds the only render chunk there.
C36_OneRenderChunkPerPosition ==
    phase = "ready" =>
        \A p \in Positions :
            /\ Cardinality(ChunksAt(renderChunks, p)) <= 1
            /\ ChunksAt(renderChunks, p) \subseteq {tryGetRenderChunkIndex(renderChunks, p)}

\* ----------------------------------------------------------------------- C37
\* Every chasm texture key holds positions of the floor texture list cache and
\* of the texture cache.
KeyIndicesValid ==
    \A k \in 1..Len(chasmTextureKeys) :
        /\ chasmTextureKeys[k].chasmFloorListIndex \in 0..(Len(chasmFloorTextureLists) - 1)
        /\ chasmTextureKeys[k].chasmWallIndex \in 0..(Len(voxelTextures) - 1)

\* C37: every floor texture list holds at least one texture, exactly one if it
\* is a solid colour, and every chasm texture key holds valid positions of the
\* two caches, so that getTextureIndex answers for every list.
C37_FloorListsNonEmpty ==
    phase = "ready" =>
        /\ \A l \in 1..Len(chasmFloorTextureLists) :
               LET textureList == chasmFloorTextureLists[l]
               IN  /\ Len(textureList.objectTextureRefs) >= 1
                   /\ textureList.animType = "SolidColor" =>
                          Len(textureList.objectTextureRefs) = 1
                   /\ getTextureIndex(textureList, 60) >= 0
        /\ KeyIndicesValid

\* The part of the claim about the keys and the solid colour lists alone.
C37_KeysValidAndColorsSingle ==
    phase = "ready" =>
        /\ KeyIndicesValid
        /\ \A l \in 1..Len(chasmFloorTextureLists) :
               chasmFloorTextureLists[l].animType = "SolidColor" =>
                   Len(chasmFloorTextureLists[l].objectTextureRefs) = 1

\* ----------------------------------------------------------------------- C38
\* The texture asset index of each opaque index group of a voxel type.
OpaqueTextureAssetIndexTable(voxelType, indexBufferIndex) ==
    CASE voxelType \in {"Wall", "Floor", "Ceiling", "Diagonal"} -> indexBufferIndex
      [] voxelType = "Raised" -> indexBufferIndex + 1
      [] voxelType = "Chasm" -> 0
      [] OTHER -> -2

\* The render mesh definition the i-th render chunk holds for the k-th voxel
\* of its chunk.
RenderMeshDefOf(i, k) ==
    LET rc == renderChunks[i]
    IN  rc.meshDefs[rc.meshDefMappings[Chunks[rc.srcChunk].voxels[k].meshDefID] + 1]

\* The voxels of the i-th render chunk's chunk that draw call generation
\* reads a render mesh definition for.
MeshedVoxels(i) ==
    LET rc == renderChunks[i]
        chunk == Chunks[rc.srcChunk]
    IN  {k \in 1..Len(chunk.voxels) :
            /\ ~chunk.meshDefs[chunk.voxels[k].meshDefID + 1].isEmpty
            /\ chunk.voxels[k].meshDefID \in DOMAIN rc.meshDefMappings}

\* C38: for every voxel type, each opaque index group below
\* GetOpaqueIndexBufferCount has the texture asset index of the table (Wall,
\* Floor, Ceiling, Diagonal group i -> i, Raised 0 -> 1 and 1 -> 2, Chasm
\* 0 -> 0) and the alpha-tested group of a type that has one has index 0; and
\* for every index buffer of every render mesh definition that draw call
\* generation walks, the selector asked with the voxel's type does not take
\* its unhandled branch.
C38_SelectorsDefined ==
    /\ \A voxelType \in VoxelTypes :
           /\ \A g \in 0..(GetOpaqueIndexBufferCount(voxelType) - 1) :
                  /\ GetVoxelOpaqueTextureAssetIndex(voxelType, g) >= 0
                  /\ GetVoxelOpaqueTextureAssetIndex(voxelType, g) =
                         OpaqueTextureAssetIndexTable(voxelType, g)
           /\ GetAlphaTestedIndexBufferCount(voxelType) = 1 =>
                  GetVoxelAlphaTestedTextureAssetIndex(voxelType) = 0
    /\ phase = "ready" =>
           \A i \in HeldChunks : \A k \in MeshedVoxels(i) :
               LET v == Chunks[renderChunks[i].srcChunk].voxels[k]
                   renderMeshDef == RenderMeshDefOf(i, k)
               IN  /\ \A g \in 0..(renderMeshDef.opaqueIndexBufferIdCount - 1) :
                          GetVoxelOpaqueTextureAssetIndex(v.type, g) >= 0
                   /\ renderMeshDef.alphaTestedIndexBufferID >= 0 =>
                          GetVoxelAlphaTestedTextureAssetIndex(v.type) >= 0

\* A raised voxel has been drawn with its two opaque index groups and its
\* alpha-tested group, and a wall of the same render chunk with three groups.
C38_Witness ==
    /\ Ready
    /\ \E i \in HeldChunks :
           LET rc == renderChunks[i]
               chunk == Chunks[rc.srcChunk]
           IN  /\ \E k \in MeshedVoxels(i) :
                      /\ chunk.voxels[k].type = "Raised"
                      /\ RenderMeshDefOf(i, k).opaqueIndexBufferIdCount = 2
                      /\ RenderMeshDefOf(i, k).alphaTestedIndexBufferID >= 0
                      /\ Cardinality(VoxelCallsIn(rc, "staticDrawCalls", k)) = 3
               /\ \E k \in MeshedVoxels(i) :
                      /\ chunk.voxels[k].type = "Wall"
                      /\ RenderMeshDefOf(i, k).opaqueIndexBufferIdCount = 3

\* ----------------------------------------------------------------------- C39
\* No two entries have the same char index.
DistinctCharIndices(es) ==
    \A i, j \in 1..Len(es) : i # j => es[i].charIndex # es[j].charIndex

\* findEntryIndex of charIndex answers the position of the entry with that
\* char index, or nothing when there is no such entry.
FindsEntryOrNothing(es, charIndex) ==
    LET found == findEntryIndex(es, charIndex)
    IN  IF \E k \in 1..Len(es) : es[k].charIndex = charIndex
        THEN /\ found \in 0..(getEntryCount(es) - 1)
             /\ es[found + 1].charIndex = charIndex
             /\ \A k \in 1..Len(es) : es[k].charIndex = charIndex => k = found + 1
        ELSE found = -1

\* C39: after any sequence of add and clear the entries have pairwise
\* distinct char indices: an add for a char index that has an entry leaves the
\* entries as they were, an add for a new char index appends exactly one entry
\* with that char index and color behind the others, findEntryIndex answers
\* the position of the entry with the char index or nothing, and clear leaves
\* no entry.
C39_DistinctCharIndices ==
    [][/\ DistinctCharIndices(entries) /\ DistinctCharIndices(entries')
       /\ \A charIndex \in CharIndices : FindsEntryOrNothing(entries', charIndex)
       /\ lastCall'.op = "add" =>
              IF \E k \in 1..Len(entries) : entries[k].charIndex = lastCall'.charIndex
              THEN entries' = entries
              ELSE /\ Len(entries') = Len(entries) + 1
                   /\ SubSeq(entries', 1, Len(entries)) = entries
                   /\ entries'[Len(entries')].charIndex = lastCall'.charIndex
                   /\ entries'[Len(entries')].color = lastCall'.color
       /\ lastCall'.op = "clear" => entries' = <<>>]_vars

\* Two entries are held and the last call was an add for the char index of
\* the first of them with another color than that entry has.
C39_Witness ==
    /\ Len(entries) = 2
    /\ lastCall.op = "add"
    /\ entries[1].charIndex = lastCall.charIndex
    /\ entries[1].color # lastCall.color
    /\ findEntryIndex(entries, lastCall.charIndex) = 0

====
